---- MODULE Spec2Model ----
(***************************************************************************)
(* A model of the trader client: the signed request gateway and the        *)
(* account client (services/okxService), the order normaliser              *)
(* (getOpenOrders), the asset history recorder (recordAssetHistory) and    *)
(* the drag gesture machine of the chart overlay (TradingChart).           *)
(*                                                                         *)
(* Representation.  A JavaScript string that the code parses (a price, a   *)
(* size, a creation time, a timestamp) is a sequence of one-character      *)
(* strings, so that parseInt and toString are computed and not assumed;    *)
(* identifiers and path segments are TLA+ strings.  A value that may be    *)
(* null (coordinateToPrice, formatNumberForApi) is << >> for null and      *)
(* <<v>> for the value v.                                                  *)
(***************************************************************************)
EXTENDS Integers, Sequences, FiniteSets, Bags, TLC

VARIABLES
    \* ---- OKXService.request (the gateway)
    config,           \* this.config: apiKey, secretKey, passphrase
    lastReq,          \* what the last request() call did
    lastCall,         \* what the last call of an account operation did
    lastRead,         \* what the last call of a read-only operation did
    \* ---- utils/formatting
    pnl,              \* the arguments and the result of calculatePnL
    \* ---- order normaliser
    rawAlgo,          \* one raw algo record as the exchange returns it
    legs,             \* the canonical orders fetchAlgo made of rawAlgo
    subCalls,         \* the answers of the sub-calls of the last getOpenOrders
    openOrders,       \* the list the last getOpenOrders returned
    \* ---- asset history recorder
    now,              \* Date.now(), in model ticks
    stored,           \* localStorage[HISTORY_KEY], parsed
    lastRecord,       \* what the last recordAssetHistory call did
    githubToken,      \* config.githubToken is set
    gist,             \* the history file of the gist: << >> or <<series>>
    syncing,          \* the local series a running sync has read
    mergeIn,          \* a remote and a local series handed to the merge
    merged,           \* what the merge made of mergeIn
    \* ---- chart overlay (TradingChart) and its owner view
    seriesData,       \* the candlestick series has data
    position,         \* the position prop: << >> or <<p>>
    chartOrders,      \* the orders prop
    overlayOrders,    \* the orders that have a handle on the overlay
    draggingOrder,    \* << >> or <<order>>
    draggingPosition, \* BOOLEAN
    dragAlgoType,     \* "none" (null), "sl" or "tp"
    positionY,        \* << >> (null) or <<y>>
    lastEvent,        \* the last DOM event handled and what it emitted
    exAlgos,          \* the exchange's pending algo records
    lastPlace,        \* the last placeOrder call: the intent and the payload
    \* ---- the effects, timers and requests of the views
    chart,            \* TradingChart: its mount effect, series and flags
    trade,            \* TradeInterface: its polling effect and its state
    sidebar,          \* MarketSidebar: its polling effect and its tickers
    dash,             \* Dashboard: the order poll of the expanded chart
    timers,           \* the timers that are armed, each with its closure
    pending,          \* the requests in flight, each with its closure
    lastStep          \* what the last timer tick or continuation did

gwVars    == <<config, lastReq, lastCall>>
normVars  == <<rawAlgo, legs, subCalls, openOrders>>
histVars  == <<now, stored, lastRecord, githubToken, gist, syncing, mergeIn,
               merged>>
chartVars == <<seriesData, position, chartOrders, overlayOrders, draggingOrder,
               draggingPosition, dragAlgoType, positionY, lastEvent, exAlgos,
               lastPlace>>
readVars  == <<lastRead, pnl>>
viewVars  == <<chart, trade, sidebar, dash, timers, pending, lastStep>>
vars      == <<gwVars, readVars, normVars, histVars, chartVars, viewVars>>

\* what the actions of one component leave alone
gwRest    == <<lastCall, readVars, normVars, histVars, chartVars, viewVars>>
normRest  == <<lastReq, lastCall, readVars, histVars, chartVars, viewVars>>
histRest  == <<lastReq, lastCall, readVars, normVars, chartVars, viewVars>>
chartRest == <<lastReq, lastCall, readVars, normVars, histVars, viewVars>>
callRest  == <<readVars, normVars, histVars, chartVars, viewVars>>
readRest  == <<lastReq, lastCall, pnl, normVars, histVars, chartVars, viewVars>>
pnlRest   == <<gwVars, lastRead, normVars, histVars, chartVars, viewVars>>
viewRest  == <<gwVars, readVars, normVars, histVars, chartVars>>
chartOnly == <<trade, sidebar, dash, viewRest>>
tradeOnly == <<chart, sidebar, dash, viewRest>>
sideOnly  == <<chart, trade, dash, viewRest>>
dashOnly  == <<chart, trade, sidebar, viewRest>>

----------------------------------------------------------------------------
(* JavaScript values *)

\* undefined, where a string is expected
Undefined == <<"undefined">>

\* ToBoolean of a string-or-undefined: the empty string and undefined are falsy
Truthy(s) == s # Undefined /\ s # << >>

DigitVal ==
    ("0" :> 0) @@ ("1" :> 1) @@ ("2" :> 2) @@ ("3" :> 3) @@ ("4" :> 4) @@
    ("5" :> 5) @@ ("6" :> 6) @@ ("7" :> 7) @@ ("8" :> 8) @@ ("9" :> 9)

DigitChar == <<"0", "1", "2", "3", "4", "5", "6", "7", "8", "9">>

IsDigit(c) == c \in DOMAIN DigitVal

\* the value of the longest prefix of digits of s, read after acc
RECURSIVE DigitsValue(_, _)
DigitsValue(s, acc) ==
    IF s = << >> \/ ~IsDigit(Head(s)) THEN acc
    ELSE DigitsValue(Tail(s), acc * 10 + DigitVal[Head(s)])

Unsigned(s) == IF s # << >> /\ Head(s) \in {"-", "+"} THEN Tail(s) ELSE s

\* parseInt(s) is NaN: no digit after the optional sign (also for undefined)
IsNaN(s) == s = Undefined \/ Unsigned(s) = << >> \/ ~IsDigit(Head(Unsigned(s)))

\* parseInt(s), and parseFloat(s) on the strings of the model (no fraction);
\* its value is read only where IsNaN(s) is false
parseInt(s) ==
    IF IsNaN(s) THEN 0
    ELSE IF Head(s) = "-" THEN 0 - DigitsValue(Tail(s), 0)
    ELSE DigitsValue(Unsigned(s), 0)

\* Number.prototype.toString of an integer
RECURSIVE NatToString(_)
NatToString(n) ==
    IF n < 10 THEN <<DigitChar[n + 1]>>
    ELSE NatToString(n \div 10) \o <<DigitChar[(n % 10) + 1]>>

toString(n) == IF n < 0 THEN <<"-">> \o NatToString(0 - n) ELSE NatToString(n)

----------------------------------------------------------------------------
(* The gateway: OKXService.request *)

Credential == {Undefined, << >>, <<"k">>}

Configs ==
    [apiKey : Credential, secretKey : Credential, passphrase : Credential]

\* request paths, as their segments: /api/v5/account/balance, ...
Paths ==
    { <<"api", "v5", "account", "balance">>,
      <<"api", "v5", "trade", "order">>,
      <<"api", "v5", "public", "instruments">>,
      <<"api", "v5", "market", "ticker">>,
      <<"api", "v5", "market">>,
      <<"public", "api", "v5", "trade">> }

\* path.includes('/seg/'): seg occurs with a slash on both sides
Includes(path, seg) == \E i \in 1..(Len(path) - 1) : path[i] = seg

isPublic(path) == Includes(path, "public") \/ Includes(path, "market")

\* a key check that forgets the passphrase
hasKeysNoPassphrase(c) == Truthy(c.apiKey) /\ Truthy(c.secretKey)

hasKeys(c) == Truthy(c.apiKey) /\ Truthy(c.secretKey) /\ Truthy(c.passphrase)

\* generateSignature: "" without a secret or when the crypto call throws,
\* else the tag of timestamp + method + path + body under the secret
generateSignature(timestamp, method, path, bodyStr, secretKey, cryptoThrows) ==
    IF ~Truthy(secretKey) THEN ""
    ELSE IF cryptoThrows THEN ""
    ELSE "tag"

\* what fetch can do: resolve with a 2xx response, resolve with a non-2xx
\* response whose body is or is not the {code, msg} envelope, reject with
\* the TypeError 'Failed to fetch', or reject with another error (the
\* TypeError of an engine that words it differently, an AbortError)
Responses ==
    { [kind |-> "ok",       status |-> 200, json |-> "data"],
      [kind |-> "http",     status |-> 429, json |-> "envelope"],
      [kind |-> "http",     status |-> 400, json |-> "envelope"],
      [kind |-> "http",     status |-> 500, json |-> "nomsg"],
      [kind |-> "http",     status |-> 502, json |-> "unparseable"],
      [kind |-> "rejected", status |-> 0,   json |-> "none"],
      [kind |-> "rejectedOther", status |-> 0, json |-> "none"] }

\* no fetch has been made
NoResponse == [kind |-> "none", status |-> 0, json |-> "none"]

NoHeaders == [sent |-> {}, sign |-> "none"]

\* headers that are built for private paths only
AuthHeadersPrivateOnly(c, method, path, hasBody, cryptoThrows) ==
    IF hasKeys(c) /\ ~isPublic(path)
    THEN [sent |-> {"OK-ACCESS-KEY", "OK-ACCESS-SIGN",
                    "OK-ACCESS-TIMESTAMP", "OK-ACCESS-PASSPHRASE"},
          sign |-> generateSignature("ts", method, path, hasBody,
                                     c.secretKey, cryptoThrows)]
    ELSE NoHeaders

\* the headers request() builds besides Content-Type
AuthHeaders(c, method, path, hasBody, cryptoThrows) ==
    IF hasKeys(c)
    THEN [sent |-> {"OK-ACCESS-KEY", "OK-ACCESS-SIGN",
                    "OK-ACCESS-TIMESTAMP", "OK-ACCESS-PASSPHRASE"},
          sign |-> generateSignature("ts", method, path, hasBody,
                                     c.secretKey, cryptoThrows)]
    ELSE NoHeaders

\* the error (or "Ok") a resolved or rejected fetch is turned into; an
\* error the catch block does not recognise is thrown on as it came
Classify(resp) ==
    IF resp.kind = "rejected" THEN "NetworkError"
    ELSE IF resp.kind = "rejectedOther" THEN "Rethrown"
    ELSE IF resp.kind = "ok" THEN "Ok"
    ELSE IF resp.status = 429 THEN "RateLimited"
    ELSE "ApiError"

\* the message of an ApiError: the envelope's code and msg, else statusText
ErrorDetail(resp) ==
    IF resp.kind = "http" /\ resp.status # 429
    THEN IF resp.json = "envelope" THEN "code: msg" ELSE "statusText"
    ELSE "none"

\* a request that tries a second time when the first attempt failed
requestWithRetry(c, method, path, hasBody, cryptoThrows, resp) ==
    IF ~isPublic(path) /\ ~hasKeys(c)
    THEN [method |-> method, path |-> path, config |-> c,
          outcome |-> "AuthMissing", detail |-> "none",
          signerCalls |-> 0, fetches |-> 0, headers |-> NoHeaders,
          resp |-> NoResponse]
    ELSE [method |-> method, path |-> path, config |-> c, resp |-> resp,
          outcome |-> Classify(resp), detail |-> ErrorDetail(resp),
          signerCalls |-> IF hasKeys(c) THEN 1 ELSE 0,
          fetches |-> IF Classify(resp) = "Ok" THEN 1 ELSE 2,
          headers |-> AuthHeaders(c, method, path, hasBody, cryptoThrows)]

\* request(method, path, body): the record of what one call did
request(c, method, path, hasBody, cryptoThrows, resp) ==
    IF ~isPublic(path) /\ ~hasKeys(c)
    THEN [method |-> method, path |-> path, config |-> c,
          outcome |-> "AuthMissing", detail |-> "none",
          signerCalls |-> 0, fetches |-> 0, headers |-> NoHeaders,
          resp |-> NoResponse]
    ELSE [method |-> method, path |-> path, config |-> c, resp |-> resp,
          outcome |-> Classify(resp), detail |-> ErrorDetail(resp),
          signerCalls |-> IF hasKeys(c) THEN 1 ELSE 0, fetches |-> 1,
          headers |-> AuthHeaders(c, method, path, hasBody, cryptoThrows)]

\* the record of a call of an account operation that has not been made
NoCall == [op |-> "none", config |-> << >>, order |-> << >>,
           endpoint |-> << >>, body |-> << >>, resp |-> NoResponse,
           item |-> << >>, outcome |-> "none", detail |-> "none",
           fetches |-> 0, result |-> "none"]

\* the record of a call of a read-only operation that has not been made:
\* its argument, the network calls it made, whether a request or the
\* mapping of an answer failed inside it, whether it threw, and the list
\* it returned
NoRead == [op |-> "none", arg |-> << >>, fetches |-> 0, failed |-> FALSE,
           threw |-> FALSE, out |-> << >>]

\* calculatePnL has not been called
NoPnL == [done |-> FALSE, entryPrice |-> 0, exitPrice |-> 0, size |-> 0,
          side |-> "long", contractVal |-> 1, out |-> 0]

ReadIdle == lastRead = NoRead /\ pnl = NoPnL

\* no chart is mounted: no effect has run, seriesRef.current is null and
\* the loading flag of the component is false
NoChart == [isMounted |-> FALSE, effect |-> 0, instId |-> << >>,
            series |-> << >>, isLoadingMore |-> FALSE,
            seenLoadingMore |-> FALSE]

\* no timer tick and no continuation of a request has run
NoStep == [op |-> "none", loop |-> "none", effect |-> 0, instId |-> << >>,
           issued |-> FALSE, overlapped |-> FALSE, stale |-> FALSE,
           applied |-> FALSE, order |-> << >>]

\* the trade view before it mounts: useState('market'),
\* useState('BTC-USDT'), no ticker, no orders, positions or balances
NoTrade == [isMounted |-> FALSE, effect |-> 0, viewMode |-> "market",
            instId |-> <<"BTC", "USDT">>, ticker |-> << >>,
            openOrders |-> << >>, positions |-> << >>, balances |-> << >>]

\* the market sidebar before it mounts: useState('SPOT'), no tickers
NoSidebar == [isMounted |-> FALSE, effect |-> 0, type |-> "SPOT",
              tickers |-> << >>]

\* the dashboard before it mounts: no position is expanded
NoDash == [isMounted |-> FALSE, effect |-> 0, expandedPosition |-> << >>,
           expandedOrders |-> << >>]

ViewIdle ==
    /\ chart = NoChart /\ trade = NoTrade /\ sidebar = NoSidebar
    /\ dash = NoDash
    /\ timers = {} /\ pending = EmptyBag /\ lastStep = NoStep

NoRequest ==
    [method |-> "none", path |-> << >>, config |-> [apiKey |-> Undefined,
     secretKey |-> Undefined, passphrase |-> Undefined],
     outcome |-> "none", detail |-> "none",
     signerCalls |-> 0, fetches |-> 0, headers |-> NoHeaders,
     resp |-> NoResponse]

GwInit == config \in Configs /\ lastReq = NoRequest /\ lastCall = NoCall /\ ReadIdle /\ ViewIdle

\* App builds a new OKXService whenever the configuration changes
NewService(c) == config' = c /\ lastReq' = NoRequest /\ UNCHANGED gwRest

Request(method, path, hasBody, cryptoThrows, resp) ==
    /\ lastReq' = request(config, method, path, hasBody, cryptoThrows, resp)
    /\ UNCHANGED <<gwRest, config>>

NextGateway ==
    \/ \E c \in Configs : NewService(c)
    \/ \E method \in {"GET", "POST"}, path \in Paths, hasBody \in BOOLEAN,
          cryptoThrows \in BOOLEAN, resp \in Responses :
          Request(method, path, hasBody, cryptoThrows, resp)

----------------------------------------------------------------------------
(* The order normaliser: OKXService.getOpenOrders *)

\* an identifier that is undefined
NoId == "undefined"

TruthyId(id) == id # NoId /\ id # ""

\* the elements of a list
Range(list) == {list[i] : i \in DOMAIN list}

\* instId.includes('SWAP'), the instrument id as its dash-separated parts
IncludesSWAP(instId) == \E i \in 1..Len(instId) : instId[i] = "SWAP"

\* the trigger prices a raw algo record can carry: none, "", "-1", a price
TriggerValues == {Undefined, << >>, <<"-", "1">>, <<"9", "5">>}

RawAlgos ==
    [algoId : {"a1", "a2"}, instId : {<<"BTC", "USDT", "SWAP">>},
     side : {"sell"}, ordType : {"conditional", "oco", "trigger"},
     ordPx : {<< >>, <<"9", "0">>}, sz : {<<"2">>}, state : {"live"},
     cTime : {<<"9">>, <<"1", "0">>},
     triggerPx : TriggerValues, slTriggerPx : TriggerValues,
     tpTriggerPx : TriggerValues]

\* `common` of fetchAlgo, with the triggerPx the legs override
Common(o) ==
    [ordId |-> o.algoId, algoId |-> o.algoId, instId |-> o.instId,
     side |-> o.side, ordType |-> o.ordType,
     px |-> IF Truthy(o.ordPx) THEN o.ordPx ELSE <<"-", "1">>,
     sz |-> o.sz, state |-> o.state, cTime |-> o.cTime,
     triggerPx |-> Undefined]

\* o.xTriggerPx && o.xTriggerPx !== '-1'
IsTrigger(px) == Truthy(px) /\ px # <<"-", "1">>

PrimaryLeg(o) ==
    IF IsTrigger(o.triggerPx)
    THEN <<[Common(o) EXCEPT !.triggerPx = o.triggerPx]>>
    ELSE << >>

\* a stop-loss leg that keeps the id of its algo record
SlLegNoSuffix(o) ==
    IF IsTrigger(o.slTriggerPx)
    THEN <<[Common(o) EXCEPT !.ordType = "sl", !.triggerPx = o.slTriggerPx]>>
    ELSE << >>

SlLeg(o) ==
    IF IsTrigger(o.slTriggerPx)
    THEN <<[Common(o) EXCEPT !.ordType = "sl", !.triggerPx = o.slTriggerPx,
                             !.ordId = o.algoId \o "-sl"]>>
    ELSE << >>

TpLeg(o) ==
    IF IsTrigger(o.tpTriggerPx)
    THEN <<[Common(o) EXCEPT !.ordType = "tp", !.triggerPx = o.tpTriggerPx,
                             !.ordId = o.algoId \o "-tp"]>>
    ELSE << >>

\* the body of res.data.forEach in fetchAlgo: the legs of one raw record
decomposeAlgo(o) == PrimaryLeg(o) \o SlLeg(o) \o TpLeg(o)

\* the map of fetchStandard: one canonical order of a raw pending order
standardOrder(o) ==
    [ordId |-> o.ordId, algoId |-> NoId, instId |-> o.instId,
     side |-> o.side, ordType |-> o.ordType, px |-> o.px, sz |-> o.sz,
     state |-> o.state, cTime |-> o.cTime, triggerPx |-> Undefined]

\* the answer of a sub-call: the request threw, or res.data is a list
Failed == [ok |-> FALSE, data |-> << >>]

Answer(list) == [ok |-> TRUE, data |-> list]

\* res.data.forEach: the legs of every record, in the order of the answer
RECURSIVE decomposeAll(_)
decomposeAll(data) ==
    IF data = << >> THEN << >>
    ELSE decomposeAlgo(Head(data)) \o decomposeAll(Tail(data))

fetchStandard(res) ==
    IF res.ok THEN [i \in 1..Len(res.data) |-> standardOrder(res.data[i])]
    ELSE << >>

fetchAlgo(res) == IF res.ok THEN decomposeAll(res.data) ELSE << >>

\* Array.prototype.sort with (a, b) => parseInt(b.cTime) - parseInt(a.cTime):
\* a stable sort, x is placed behind every element that is not older than it
RECURSIVE InsertDesc(_, _)
InsertDesc(sorted, x) ==
    IF sorted = << >> THEN <<x>>
    ELSE IF parseInt(x.cTime) - parseInt(Head(sorted).cTime) > 0
         THEN <<x>> \o sorted
         ELSE <<Head(sorted)>> \o InsertDesc(Tail(sorted), x)

RECURSIVE SortFrom(_, _)
SortFrom(sorted, rest) ==
    IF rest = << >> THEN sorted
    ELSE SortFrom(InsertDesc(sorted, Head(rest)), Tail(rest))

\* the concatenation left in call order
Unsorted(list) == list

sortByCTimeDesc(list) == SortFrom(<< >>, list)

\* the instrument types getOpenOrders asks for
InstTypes(instId) ==
    IF instId # << >>
    THEN <<IF IncludesSWAP(instId) THEN "SWAP" ELSE "SPOT">>
    ELSE <<"SPOT", "SWAP">>

\* an aggregation that stops at the first sub-call that fails
OrdersUntilFailure(ans) ==
    IF ~ans.std.ok THEN << >>
    ELSE fetchStandard(ans.std) \o
         (IF ~ans.conditional.ok THEN << >>
          ELSE fetchAlgo(ans.conditional) \o
               (IF ~ans.oco.ok THEN << >>
                ELSE fetchAlgo(ans.oco) \o fetchAlgo(ans.trigger)))

\* the four sub-calls of one instrument type, concatenated in call order
OrdersOfType(ans) ==
    fetchStandard(ans.std) \o fetchAlgo(ans.conditional)
        \o fetchAlgo(ans.oco) \o fetchAlgo(ans.trigger)

RECURSIVE AllOrders(_, _)
AllOrders(types, answers) ==
    IF types = << >> THEN << >>
    ELSE OrdersOfType(answers[Head(types)]) \o AllOrders(Tail(types), answers)

getOpenOrders(c, instId, answers) ==
    IF ~hasKeys(c) THEN << >>
    ELSE sortByCTimeDesc(AllOrders(InstTypes(instId), answers))

\* the sub-calls getOpenOrders awaits, in order: each helper catches its
\* own error, so the loop goes on whatever a sub-call did
RECURSIVE subCallsOf(_)
subCallsOf(types) ==
    IF types = << >> THEN << >>
    ELSE << <<Head(types), "std">>, <<Head(types), "conditional">>,
            <<Head(types), "oco">>, <<Head(types), "trigger">> >>
             \o subCallsOf(Tail(types))

issuedBy(c, instId) ==
    IF ~hasKeys(c) THEN << >> ELSE subCallsOf(InstTypes(instId))

----------------------------------------------------------------------------
(* The asset history recorder: OKXService.getBalances, recordAssetHistory *)

\* one hour in model ticks (3600000 ms in the code)
OneHour == 2

\* the length the series is cut to
HistoryCap == 1000

\* how far the clock runs after the initial state
MaxElapsed == 8

\* the balance details the exchange can answer with (eqUsd of each currency)
BalanceAnswers == {Failed, Answer(<< >>), Answer(<< <<"5">>, <<"7">> >>)}

RECURSIVE SumEq(_)
SumEq(balances) ==
    IF balances = << >> THEN 0
    ELSE parseInt(Head(balances)) + SumEq(Tail(balances))

\* history.slice(0, n), the cut from the wrong end
SliceFirst(h, n) == IF Len(h) > n THEN SubSeq(h, 1, n) ELSE h

\* history.slice(-n)
SliceLast(h, n) == IF Len(h) > n THEN SubSeq(h, Len(h) - n + 1, Len(h)) ELSE h

\* the comparison with >= in place of >
HourPassedOrEqual(t, last) ==
    ~IsNaN(last.ts) /\ t - parseInt(last.ts) >= OneHour

\* Date.now() - parseInt(last.ts) > 3600000, false when parseInt is NaN
HourPassed(t, last) == ~IsNaN(last.ts) /\ t - parseInt(last.ts) > OneHour

\* "Keep max 1000 points"
CapHistory(h) == IF Len(h) > HistoryCap THEN SliceLast(h, HistoryCap) ELSE h

\* the point recordAssetHistory builds: { ts: Date.now().toString(), totalEq }
historyPoint(balances, t) == [ts |-> toString(t), totalEq |-> SumEq(balances)]

\* recordAssetHistory reaches history.push(point)
pushes(history, balances, t) ==
    /\ Len(balances) # 0
    /\ history = << >> \/ HourPassed(t, history[Len(history)])

\* the series recordAssetHistory leaves in local storage, called at time t
\* (its two reads of Date.now(), for the comparison and for the point, are
\* one instant: no await separates them)
recordAssetHistory(history, balances, t) ==
    IF pushes(history, balances, t)
    THEN CapHistory(Append(history, historyPoint(balances, t)))
    ELSE history

\* the balances getBalances returns: [] without keys or when the call fails
balancesOf(c, answer) ==
    IF ~hasKeys(c) THEN << >>
    ELSE IF answer.ok THEN answer.data ELSE << >>

\* mergedMap.set(item.ts, item): a key the map has keeps its place and
\* takes the new value, a new key goes to the end
MapSet(map, item) ==
    IF \E i \in DOMAIN map : map[i].ts = item.ts
    THEN [map EXCEPT ![CHOOSE i \in DOMAIN map : map[i].ts = item.ts] = item]
    ELSE Append(map, item)

\* items.forEach(item => mergedMap.set(item.ts, item)): the items are set
\* from first to last (the first half of them, then the second half)
RECURSIVE MapSetAll(_, _)
MapSetAll(map, items) ==
    IF items = << >> THEN map
    ELSE IF Len(items) = 1 THEN MapSet(map, items[1])
    ELSE LET half == Len(items) \div 2
             first == MapSetAll(map, SubSeq(items, 1, half)) IN
         IF first = << >> THEN << >>
         ELSE MapSetAll(first, SubSeq(items, half + 1, Len(items)))

\* the number of elements of sorted[1..hi] that are not later than x, given
\* that the first lo are not and that sorted is in ascending order
RECURSIVE NotLater(_, _, _, _)
NotLater(sorted, x, lo, hi) ==
    IF lo = hi THEN lo
    ELSE LET mid == (lo + hi + 1) \div 2 IN
         IF parseInt(sorted[mid].ts) - parseInt(x.ts) > 0
         THEN NotLater(sorted, x, lo, mid - 1)
         ELSE NotLater(sorted, x, mid, hi)

\* the stable Array.prototype.sort with (a, b) => parseInt(a.ts) -
\* parseInt(b.ts): x is placed behind every element that is not later
InsertAsc(sorted, x) ==
    IF sorted = << >> THEN <<x>>
    ELSE IF parseInt(sorted[Len(sorted)].ts) - parseInt(x.ts) > 0
         THEN LET k == NotLater(sorted, x, 0, Len(sorted) - 1) IN
              SubSeq(sorted, 1, k) \o <<x>>
                  \o SubSeq(sorted, k + 1, Len(sorted))
         ELSE Append(sorted, x)

RECURSIVE SortAscFrom(_, _)
SortAscFrom(sorted, rest) ==
    IF rest = << >> THEN sorted
    ELSE IF Len(rest) = 1 THEN InsertAsc(sorted, rest[1])
    ELSE LET half == Len(rest) \div 2
             first == SortAscFrom(sorted, SubSeq(rest, 1, half)) IN
         IF first = << >> THEN << >>
         ELSE SortAscFrom(first, SubSeq(rest, half + 1, Len(rest)))

\* the list in the order the map gave it
KeptInMapOrder(list) == list

sortByTsAsc(list) == SortAscFrom(<< >>, list)

\* a merge that lets the remote point win
mergeRemoteWins(remoteData, localData) ==
    sortByTsAsc(MapSetAll(MapSetAll(<< >>, localData), remoteData))

\* the merge of syncData: remote first, local over it, sorted by timestamp
mergeHistory(remoteData, localData) ==
    sortByTsAsc(MapSetAll(MapSetAll(<< >>, remoteData), localData))

\* remoteData of syncData: [] when there is no gist
remoteOf(g) == IF g = << >> THEN << >> ELSE g[1]

\* the gist after syncData(localData): a new gist is created, a gist that
\* exists is updated unless the merged list is as long as its content
uploaded(g, localData) ==
    IF g # << >> /\ Len(mergeHistory(g[1], localData)) = Len(g[1])
    THEN g
    ELSE <<mergeHistory(remoteOf(g), localData)>>

\* the time of the initial state
Epoch == HistoryCap * (OneHour + 1)

\* a series the recorder has built by the time Epoch: n points, each more
\* than an hour after the one before, the last one at Epoch
Ramp(n) ==
    [i \in 1..n |-> [ts |-> toString(Epoch - (n - i) * (OneHour + 1)),
                     totalEq |-> 12]]

\* the record of a getBalances call: when, whether the balance list was
\* non-empty, its total equity, whether the series was empty, whether a
\* point was pushed, what became of the upload it started and how many
\* points the cap dropped
NoRecord == [flip |-> FALSE, called |-> FALSE, at |-> 0, nonEmpty |-> FALSE,
             totalEq |-> 0, wasEmpty |-> FALSE, pushed |-> FALSE,
             sync |-> "none", evicted |-> 0]

Complete == [apiKey |-> <<"k">>, secretKey |-> <<"k">>, passphrase |-> <<"k">>]

NoPassphrase == [Complete EXCEPT !.passphrase = << >>]

NoMerge == [remote |-> << >>, local |-> << >>]

NotMerged == [done |-> FALSE, again |-> FALSE, out |-> << >>]

\* no sync is running and no merge has been asked for
SyncIdle == syncing = << >> /\ mergeIn = NoMerge /\ merged = NotMerged

\* the recorder without a GitHub token
HistInit ==
    /\ config \in {Complete, NoPassphrase}
    /\ stored \in {Ramp(0), Ramp(1), Ramp(HistoryCap - 1), Ramp(HistoryCap)}
    /\ now = Epoch
    /\ lastRecord = NoRecord
    /\ githubToken = FALSE
    /\ gist = << >>
    /\ SyncIdle

\* time passes
Tick(d) ==
    /\ now + d <= Epoch + MaxElapsed
    /\ now' = now + d
    /\ UNCHANGED <<histRest, config, stored, lastRecord, githubToken, gist,
                   syncing, mergeIn, merged>>

\* what the GitHub API does to one syncData call: every request succeeds,
\* the listing of the gists fails (findGist gives null), or a later
\* request fails (syncData throws)
SyncOutcomes == {"ok", "unlisted", "failed"}

\* the remote file syncData merges with: none when the listing failed
seenGist(g, outcome) == IF outcome = "unlisted" THEN << >> ELSE g

\* a recorder that takes its point back when the upload fails
persistedUnlessSyncFails(history, balances, t, outcome) ==
    IF outcome = "failed" THEN history
    ELSE recordAssetHistory(history, balances, t)

\* the series in local storage once getBalances has returned and the
\* syncData it started has settled: setItem comes before syncData is
\* started, and syncData's rejection goes to a .catch that only logs
persisted(history, balances, t, outcome) ==
    recordAssetHistory(history, balances, t)

\* the upload recordAssetHistory starts: none unless a point was pushed
\* and a token is configured
autoSync(token, history, balances, t, outcome) ==
    IF token /\ pushes(history, balances, t) THEN outcome ELSE "none"

\* getBalances(): the request, the map, and recordAssetHistory(balances),
\* which starts syncData(history) after a push when a token is configured
GetBalances(answer, outcome) ==
    LET balances == balancesOf(config, answer) IN
    /\ stored' = persisted(stored, balances, now, outcome)
    /\ gist' = IF githubToken /\ pushes(stored, balances, now)
                    /\ outcome # "failed"
               THEN uploaded(seenGist(gist, outcome), stored')
               ELSE gist
    /\ lastRecord' = [flip |-> ~lastRecord.flip, called |-> TRUE, at |-> now,
                      nonEmpty |-> balances # << >>,
                      totalEq |-> SumEq(balances),
                      wasEmpty |-> stored = << >>,
                      pushed |-> pushes(stored, balances, now),
                      sync |-> autoSync(githubToken, stored, balances, now,
                                        outcome),
                      evicted |-> IF pushes(stored, balances, now)
                                  THEN Len(stored) + 1 - Len(stored')
                                  ELSE 0]
    /\ lastRead' = [op |-> "getBalances", arg |-> << >>,
                    fetches |-> IF hasKeys(config) THEN 1 ELSE 0,
                    failed |-> hasKeys(config) /\ ~answer.ok,
                    threw |-> FALSE, out |-> balances]
    /\ UNCHANGED <<gwVars, pnl, normVars, chartVars, viewVars, now, githubToken,
                   syncing, mergeIn, merged>>

\* syncHistoryWithGitHub up to its await: the local series is read
SyncStart ==
    /\ githubToken
    /\ syncing = << >>
    /\ syncing' = <<stored>>
    /\ UNCHANGED <<histRest, config, now, stored, lastRecord, githubToken,
                   gist, mergeIn, merged>>

\* syncHistoryWithGitHub after its await: syncData has merged and uploaded,
\* the merged series is written to local storage; nothing is written when
\* syncData threw
SyncFinish(outcome) ==
    /\ syncing # << >>
    /\ syncing' = << >>
    /\ gist' = IF outcome = "failed" THEN gist
               ELSE uploaded(seenGist(gist, outcome), syncing[1])
    /\ stored' = IF outcome = "failed" THEN stored
                 ELSE mergeHistory(remoteOf(seenGist(gist, outcome)),
                                   syncing[1])
    /\ UNCHANGED <<histRest, config, now, lastRecord, githubToken, mergeIn,
                   merged>>

\* syncData's merge of a remote and a local series
Merge ==
    /\ ~merged.done
    /\ merged' = [done |-> TRUE, again |-> FALSE,
                  out |-> mergeHistory(mergeIn.remote, mergeIn.local)]
    /\ UNCHANGED <<histRest, config, now, stored, lastRecord, githubToken,
                   gist, syncing, mergeIn>>

\* the merged series merged with itself
MergeAgain ==
    /\ merged.done /\ ~merged.again
    /\ mergeIn' = [remote |-> merged.out, local |-> merged.out]
    /\ merged' = [done |-> TRUE, again |-> TRUE,
                  out |-> mergeHistory(merged.out, merged.out)]
    /\ UNCHANGED <<histRest, config, now, stored, lastRecord, githubToken,
                   gist, syncing>>

\* 24 * 60 * 60 * 1000 ms in model ticks
Day == 24 * OneHour

TimePeriods == {"1D", "1W", "1M", "3M"}

\* now - cutoff of getAssetHistory for a TimePeriod
periodLength(period) ==
    IF period = "1D" THEN Day
    ELSE IF period = "1W" THEN 7 * Day
    ELSE IF period = "1M" THEN 30 * Day
    ELSE IF period = "3M" THEN 90 * Day
    ELSE 0

\* a filter that leaves out the point at the cutoff
filterAfterCutoff(history, cutoff) ==
    LET Recent(h) == ~IsNaN(h.ts) /\ parseInt(h.ts) > cutoff IN
    SelectSeq(history, Recent)

\* realHistory.filter(h => parseInt(h.ts) >= cutoff)
filterSince(history, cutoff) ==
    LET Recent(h) == ~IsNaN(h.ts) /\ parseInt(h.ts) >= cutoff IN
    SelectSeq(history, Recent)

getAssetHistory(history, period, t) ==
    filterSince(history, t - periodLength(period))

\* getAssetHistory(period): reads local storage and the clock, writes
\* nothing
GetAssetHistory(period) ==
    /\ lastRead' = [op |-> "getAssetHistory", arg |-> <<period>>,
                    fetches |-> 0, failed |-> FALSE, threw |-> FALSE,
                    out |-> getAssetHistory(stored, period, now)]
    /\ UNCHANGED readRest /\ UNCHANGED config

NextHistory ==
    \/ \E d \in 1..(OneHour + 1) : Tick(d)
    \/ \E answer \in BalanceAnswers, outcome \in SyncOutcomes :
          GetBalances(answer, outcome)

----------------------------------------------------------------------------
(* The account client: OKXService.placeOrder *)

\* the body placeOrder posts; a field the code does not set is Undefined
placeOrderPayload(order) ==
    [instId |-> order.instId, tdMode |-> order.tdMode, side |-> order.side,
     sz |-> order.sz,
     posSide |-> IF TruthyId(order.posSide) THEN order.posSide ELSE NoId,
     ordType |-> order.ordType,
     slTriggerPx |-> IF order.ordType = "conditional"
                     THEN order.triggerPx ELSE Undefined,
     slOrdPx |-> IF order.ordType = "conditional"
                 THEN (IF order.px = Undefined THEN <<"-", "1">> ELSE order.px)
                 ELSE Undefined,
     tpTriggerPx |-> Undefined,
     tpOrdPx |-> Undefined,
     px |-> IF order.ordType # "conditional" /\ order.ordType # "market"
               /\ Truthy(order.px)
            THEN order.px ELSE Undefined]

\* every order posted to the standard endpoint
standardEndpointOnly(order) == <<"api", "v5", "trade", "order">>

placeOrderEndpoint(order) ==
    IF order.ordType = "conditional"
    THEN <<"api", "v5", "trade", "order-algo">>
    ELSE <<"api", "v5", "trade", "order">>

\* res.data[0] of the answer to a placed order: absent, accepted with an
\* order id or an algo id, or refused with or without a message
NoItem == << >>

OrderItems ==
    { NoItem,
      <<[sCode |-> "0", sMsg |-> "", ordId |-> "o9", algoId |-> NoId]>>,
      <<[sCode |-> "0", sMsg |-> "", ordId |-> NoId, algoId |-> "a9"]>>,
      <<[sCode |-> "51008", sMsg |-> "Insufficient balance",
         ordId |-> "", algoId |-> NoId]>>,
      <<[sCode |-> "1", sMsg |-> "", ordId |-> "", algoId |-> NoId]>> }

\* an answer whose status code is not looked at
orderOutcomeAnyCode(item) ==
    IF item = NoItem
    THEN [outcome |-> "OrderFailed", detail |-> "Order failed",
          result |-> "none"]
    ELSE [outcome |-> "Ok", detail |-> "none",
          result |-> IF TruthyId(item[1].ordId) THEN item[1].ordId
                     ELSE item[1].algoId]

\* what placeOrder makes of the answer to its request
orderOutcome(item) ==
    IF item = NoItem
    THEN [outcome |-> "OrderFailed", detail |-> "Order failed",
          result |-> "none"]
    ELSE IF item[1].sCode # "0"
    THEN [outcome |-> "OrderRejected",
          detail |-> IF TruthyId(item[1].sMsg) THEN item[1].sMsg
                     ELSE "Order placement failed",
          result |-> "none"]
    ELSE [outcome |-> "Ok", detail |-> "none",
          result |-> IF TruthyId(item[1].ordId) THEN item[1].ordId
                     ELSE item[1].algoId]

\* placeOrder(order): the record of what one call did
placeOrder(c, order, cryptoThrows, resp, item) ==
    LET endpoint == placeOrderEndpoint(order)
        req == request(c, "POST", endpoint, TRUE, cryptoThrows, resp)
        call == [op |-> "placeOrder", config |-> c, order |-> <<order>>,
                 endpoint |-> endpoint,
                 body |-> <<placeOrderPayload(order)>>, resp |-> resp,
                 item |-> IF resp.kind = "ok" THEN item ELSE NoItem,
                 outcome |-> req.outcome, detail |-> req.detail,
                 fetches |-> req.fetches, result |-> "none"] IN
    IF ~hasKeys(c)
    THEN [NoCall EXCEPT !.op = "placeOrder", !.config = c,
                        !.order = <<order>>, !.outcome = "AuthMissing",
                        !.detail = "Please configure API Keys in Settings"]
    ELSE IF req.outcome # "Ok" THEN call
    ELSE [call EXCEPT !.outcome = orderOutcome(item).outcome,
                      !.detail = orderOutcome(item).detail,
                      !.result = orderOutcome(item).result]

\* a call of placeOrder, and the request it makes when the keys are there
PlaceOrder(order, cryptoThrows, resp, item) ==
    /\ lastCall' = placeOrder(config, order, cryptoThrows, resp, item)
    /\ lastReq' = IF hasKeys(config)
                  THEN request(config, "POST", placeOrderEndpoint(order),
                               TRUE, cryptoThrows, resp)
                  ELSE lastReq
    /\ UNCHANGED <<callRest, config>>

\* the two copies of the service in the repository: the build has one
Copies == {"part_002", "part_003"}

\* a call that returned without a request and without an error
Silent(op, c, arg) ==
    [NoCall EXCEPT !.op = op, !.config = c, !.order = <<arg>>,
                   !.outcome = "Ok"]

\* a call that threw before any request
Thrown(op, c, arg, error) ==
    [NoCall EXCEPT !.op = op, !.config = c, !.order = <<arg>>,
                   !.outcome = error]

\* a call that awaited one POST request and let its error pass
Sent(op, c, arg, endpoint, body, resp) ==
    LET req == request(c, "POST", endpoint, TRUE, FALSE, resp) IN
    [NoCall EXCEPT !.op = op, !.config = c, !.order = <<arg>>,
                   !.endpoint = endpoint, !.body = <<body>>, !.resp = resp,
                   !.outcome = req.outcome, !.detail = req.detail,
                   !.fetches = req.fetches]

\* a call that awaited one POST request inside try { } catch (e) {}
SentAndSwallowed(op, c, arg, endpoint, body, resp) ==
    [Sent(op, c, arg, endpoint, body, resp) EXCEPT !.outcome = "Ok",
                                                   !.detail = "none"]

NoRoute == [endpoint |-> << >>, array |-> FALSE, item |-> << >>]

\* a cancelOrder that prefers the order identifier
cancelRouteOrderFirst(instId, ordId, algoId) ==
    IF TruthyId(ordId)
    THEN [endpoint |-> <<"api", "v5", "trade", "cancel-order">>,
          array |-> FALSE,
          item |-> <<[instId |-> instId, ordId |-> ordId,
                      algoId |-> NoId]>>]
    ELSE IF TruthyId(algoId)
    THEN [endpoint |-> <<"api", "v5", "trade", "cancel-algos">>,
          array |-> TRUE,
          item |-> <<[instId |-> instId, ordId |-> NoId,
                      algoId |-> algoId]>>]
    ELSE NoRoute

\* cancelOrder: the endpoint and the body for the identifiers given
cancelRoute(instId, ordId, algoId) ==
    IF TruthyId(algoId)
    THEN [endpoint |-> <<"api", "v5", "trade", "cancel-algos">>,
          array |-> TRUE,
          item |-> <<[instId |-> instId, ordId |-> NoId,
                      algoId |-> algoId]>>]
    ELSE IF TruthyId(ordId)
    THEN [endpoint |-> <<"api", "v5", "trade", "cancel-order">>,
          array |-> FALSE,
          item |-> <<[instId |-> instId, ordId |-> ordId,
                      algoId |-> NoId]>>]
    ELSE NoRoute

\* the body of a routed call: the item, whether wrapped in an array
bodyOf(route) == [array |-> route.array, item |-> route.item[1]]

\* cancelOrder(instId, ordId, algoId) of the first copy
cancelOrder(c, arg, resp) ==
    LET route == cancelRoute(arg.instId, arg.ordId, arg.algoId) IN
    IF ~hasKeys(c) THEN Silent("cancelOrder", c, arg)
    ELSE IF ~Truthy(arg.instId)
    THEN Thrown("cancelOrder", c, arg, "MissingInstrumentId")
    ELSE IF route = NoRoute
    THEN Thrown("cancelOrder", c, arg, "MissingOrderId")
    ELSE Sent("cancelOrder", c, arg, route.endpoint, bodyOf(route), resp)

\* cancelOrder of the second copy: no check of the arguments
cancelOrderB(c, arg, resp) ==
    LET route == cancelRoute(arg.instId, arg.ordId, arg.algoId) IN
    IF ~hasKeys(c) THEN Silent("cancelOrder", c, arg)
    ELSE IF route = NoRoute THEN Silent("cancelOrder", c, arg)
    ELSE Sent("cancelOrder", c, arg, route.endpoint, bodyOf(route), resp)

\* the new-value fields of an AmendOrderRequest
AmendFields == {"newSz", "newPx", "newTpTriggerPx", "newTpOrdPx",
                "newSlTriggerPx", "newSlOrdPx", "newTriggerPx"}

\* the fields amendOrder copies on the algo route and on the standard one
AlgoAmendFields == AmendFields \ {"newPx"}

StdAmendFields == {"newSz", "newPx"}

\* a body that carries every field of the request
amendItemWhole(req, id, fields) == req

\* the body item of one route: instId, the identifier of the route, and
\* if (req.f) body.f = req.f for the fields of the route
amendItem(req, id, fields) ==
    [f \in DOMAIN req |->
        IF f = "instId" THEN req.instId
        ELSE IF f \in {"ordId", "algoId"}
             THEN (IF f = id THEN req[f] ELSE NoId)
        ELSE IF f \in fields /\ Truthy(req[f]) THEN req[f]
        ELSE Undefined]

\* amendOrder: the endpoint and the body for the request given
amendRoute(req) ==
    IF TruthyId(req.algoId)
    THEN [endpoint |-> <<"api", "v5", "trade", "amend-algos">>,
          array |-> TRUE, item |-> <<amendItem(req, "algoId", AlgoAmendFields)>>]
    ELSE IF TruthyId(req.ordId)
    THEN [endpoint |-> <<"api", "v5", "trade", "amend-order">>,
          array |-> FALSE,
          item |-> <<amendItem(req, "ordId", StdAmendFields)>>]
    ELSE NoRoute

\* amendOrder(req) of the first copy
amendOrder(c, req, resp) ==
    LET route == amendRoute(req) IN
    IF ~hasKeys(c) THEN Silent("amendOrder", c, req)
    ELSE IF ~Truthy(req.instId)
    THEN Thrown("amendOrder", c, req, "MissingInstrumentId")
    ELSE IF route = NoRoute
    THEN Thrown("amendOrder", c, req, "MissingOrderId")
    ELSE Sent("amendOrder", c, req, route.endpoint, bodyOf(route), resp)

\* amendOrder of the second copy: no check of the arguments
amendOrderB(c, req, resp) ==
    LET route == amendRoute(req) IN
    IF ~hasKeys(c) THEN Silent("amendOrder", c, req)
    ELSE IF route = NoRoute THEN Silent("amendOrder", c, req)
    ELSE Sent("amendOrder", c, req, route.endpoint, bodyOf(route), resp)

LeveragePath == <<"api", "v5", "account", "set-leverage">>

\* setLeverage(instId, lever, mgnMode) of the first copy: the error is
\* logged and thrown again
setLeverage(c, arg, resp) ==
    IF ~hasKeys(c) THEN Silent("setLeverage", c, arg)
    ELSE Sent("setLeverage", c, arg, LeveragePath,
              [array |-> FALSE, item |-> arg], resp)

\* setLeverage of the second copy: catch (e) {}
setLeverageB(c, arg, resp) ==
    IF ~hasKeys(c) THEN Silent("setLeverage", c, arg)
    ELSE SentAndSwallowed("setLeverage", c, arg, LeveragePath,
                          [array |-> FALSE, item |-> arg], resp)

\* the request a call has made, if it made one
requestOf(call) ==
    IF call.fetches = 0 THEN lastReq
    ELSE request(call.config, "POST", call.endpoint, TRUE, FALSE, call.resp)

CancelOrder(copy, arg, resp) ==
    /\ lastCall' = IF copy = "part_002" THEN cancelOrder(config, arg, resp)
                   ELSE cancelOrderB(config, arg, resp)
    /\ lastReq' = requestOf(lastCall')
    /\ UNCHANGED <<callRest, config>>

AmendOrder(copy, req, resp) ==
    /\ lastCall' = IF copy = "part_002" THEN amendOrder(config, req, resp)
                   ELSE amendOrderB(config, req, resp)
    /\ lastReq' = requestOf(lastCall')
    /\ UNCHANGED <<callRest, config>>

SetLeverage(copy, arg, resp) ==
    /\ lastCall' = IF copy = "part_002" THEN setLeverage(config, arg, resp)
                   ELSE setLeverageB(config, arg, resp)
    /\ lastReq' = requestOf(lastCall')
    /\ UNCHANGED <<callRest, config>>

----------------------------------------------------------------------------
(* The chart overlay: TradingChart, and the view that owns it *)

\* the instrument the chart shows
ActiveInst == <<"BTC", "USDT", "SWAP">>

\* the cursor positions of the model: clientY - rect.top in 0..MaxY
MaxY == 3

Ys == 0..MaxY

\* how many algo orders the exchange accepts
MaxAlgos == 1

AlgoIds == <<"a1", "a2", "a3">>

\* chartContainerRef.current and seriesRef.current exist from the mount
\* effect to its cleanup, that is whenever a handler of the component runs
SurfaceReady == TRUE

\* the price scale of the chart engine: the price at y is 5 * (MaxY - y),
\* and there is no price scale while the series is empty
coordinateToPrice(hasData, y) == IF hasData THEN <<5 * (MaxY - y)>> ELSE << >>

priceToCoordinate(hasData, price) ==
    IF hasData THEN <<MaxY - (price \div 5)>> ELSE << >>

\* ToBoolean of number-or-null
TruthyNum(p) == p # << >> /\ p[1] # 0

\* formatNumberForApi of an integer price: its decimal digits; null for null
formatNumberForApi(p) == IF p = << >> THEN << >> ELSE <<toString(p[1])>>

Positions ==
    { [instId |-> ActiveInst, posSide |-> "long",  pos |-> <<"2">>,
       avgPx |-> <<"1", "0">>, mgnMode |-> "cross"],
      [instId |-> ActiveInst, posSide |-> "short", pos |-> <<"2">>,
       avgPx |-> <<"1", "0">>, mgnMode |-> "cross"],
      [instId |-> ActiveInst, posSide |-> "net",   pos |-> <<"2">>,
       avgPx |-> <<"1", "0">>, mgnMode |-> "cross"],
      [instId |-> ActiveInst, posSide |-> "net",   pos |-> <<"-", "2">>,
       avgPx |-> <<"1", "0">>, mgnMode |-> "cross"] }

\* the pending limit order the exchange holds from the start
RestingOrder ==
    [ordId |-> "o1", instId |-> ActiveInst, side |-> "buy",
     ordType |-> "limit", px |-> <<"5">>, sz |-> <<"1">>, state |-> "live",
     cTime |-> <<"1", "0">>]

NoIntent == [kind |-> "none", order |-> << >>, algoType |-> "none",
             price |-> << >>]

ModifyIntent(order, price) ==
    [kind |-> "modify", order |-> <<order>>, algoType |-> "none",
     price |-> price]

CreateIntent(type, price) ==
    [kind |-> "create", order |-> << >>, algoType |-> type, price |-> price]

\* a short check that looks at posSide only
isShortBySideOnly(p) == p.posSide = "short"

\* "Robust Long/Short Check" of handleMouseMove
isShort(p) ==
    p.posSide = "short"
        \/ (p.posSide = "net" /\ ~IsNaN(p.pos) /\ parseInt(p.pos) < 0)

\* the kind handleMouseMove gives a candidate price
classify(p, currentPrice) ==
    IF isShort(p)
    THEN (IF currentPrice < parseInt(p.avgPx) THEN "tp" ELSE "sl")
    ELSE (IF currentPrice > parseInt(p.avgPx) THEN "tp" ELSE "sl")

\* the gesture state a handler reads and writes
Gesture == [draggingOrder |-> draggingOrder,
            draggingPosition |-> draggingPosition,
            dragAlgoType |-> dragAlgoType]

\* handleMouseMove: the gesture state after a mousemove at y
handleMouseMove(y) ==
    IF ~SurfaceReady THEN Gesture
    ELSE IF draggingOrder # << >> THEN Gesture
    ELSE IF draggingPosition /\ positionY # << >>
    THEN IF position = << >> THEN Gesture     \* position!.avgPx throws
         ELSE IF ~TruthyNum(coordinateToPrice(seriesData, y)) THEN Gesture
         ELSE [Gesture EXCEPT !.dragAlgoType =
                  classify(position[1], coordinateToPrice(seriesData, y)[1])]
    ELSE Gesture

\* the intent handleMouseUp emits for a converted price, if any
Emit(newPrice, intent) ==
    IF TruthyNum(newPrice) /\ formatNumberForApi(newPrice) # << >>
    THEN intent ELSE NoIntent

\* handleMouseUp: the gesture state and the intent after a mouseup at y
handleMouseUp(y) ==
    LET newPrice == coordinateToPrice(seriesData, y)
        formatted == formatNumberForApi(newPrice) IN
    IF ~SurfaceReady
    THEN [g |-> [Gesture EXCEPT !.draggingOrder = << >>,
                                !.draggingPosition = FALSE],
          intent |-> NoIntent]
    ELSE IF draggingOrder # << >>
    THEN [g |-> [Gesture EXCEPT !.draggingOrder = << >>],
          intent |-> Emit(newPrice, ModifyIntent(draggingOrder[1],
                                                 formatted[1]))]
    ELSE IF draggingPosition /\ dragAlgoType # "none" /\ position # << >>
    THEN [g |-> [Gesture EXCEPT !.draggingPosition = FALSE,
                                !.dragAlgoType = "none"],
          intent |-> Emit(newPrice, CreateIntent(dragAlgoType, formatted[1]))]
    ELSE [g |-> Gesture, intent |-> NoIntent]

\* a leave handler that drops the drag instead of committing it
cancelDrag(y) ==
    [g |-> [draggingOrder |-> << >>, draggingPosition |-> FALSE,
            dragAlgoType |-> "none"],
     intent |-> NoIntent]

\* onMouseLeave={handleMouseUp}
handleMouseLeave(y) == handleMouseUp(y)

\* the margin mode selected in the owner view
marginMode == "cross"

\* closeSide of handleAddAlgo
closeSide(p) ==
    IF p.posSide = "long" THEN "sell"
    ELSE IF p.posSide = "short" THEN "buy"
    ELSE IF ~IsNaN(p.pos) /\ parseInt(p.pos) > 0 THEN "sell" ELSE "buy"

\* the order request handleAddAlgo(type, priceVal) hands to placeOrder
addAlgoRequest(p, type, priceVal) ==
    [instId |-> ActiveInst,
     tdMode |-> IF IncludesSWAP(ActiveInst) THEN marginMode ELSE "cash",
     side |-> closeSide(p),
     posSide |-> IF IncludesSWAP(ActiveInst) THEN p.posSide ELSE NoId,
     ordType |-> "conditional", triggerPx |-> priceVal,
     px |-> <<"-", "1">>, sz |-> p.pos]

\* the record of a handleAddAlgo call: the kind and price it was given, the
\* placeOrder call it made, and whether the exchange accepted the order
NoPlace == [called |-> FALSE, kind |-> "none", price |-> << >>,
            endpoint |-> << >>, payload |-> << >>, accepted |-> FALSE]

\* handleAddAlgo: the placeOrder call made for a create intent
placeFor(intent) ==
    IF intent.kind = "create" /\ position # << >> /\ hasKeys(config)
    THEN [called |-> TRUE, kind |-> intent.algoType, price |-> intent.price,
          accepted |-> Len(exAlgos) < MaxAlgos,
          endpoint |->
              placeOrderEndpoint(addAlgoRequest(position[1], intent.algoType,
                                                intent.price)),
          payload |->
              <<placeOrderPayload(addAlgoRequest(position[1], intent.algoType,
                                                 intent.price))>>]
    ELSE NoPlace

\* an unset field of a record the exchange returns is the empty string
Returned(v) == IF v = Undefined THEN << >> ELSE v

\* the pending algo record the exchange keeps for an accepted algo order
acceptedAlgo(payload, n) ==
    [algoId |-> AlgoIds[n], instId |-> payload.instId, side |-> payload.side,
     ordType |-> payload.ordType, ordPx |-> << >>, sz |-> payload.sz,
     state |-> "live", cTime |-> toString(20 + n), triggerPx |-> << >>,
     slTriggerPx |-> Returned(payload.slTriggerPx),
     tpTriggerPx |-> Returned(payload.tpTriggerPx)]

\* the exchange's book after the placeOrder call placeFor(intent) made:
\* the order is rejected (sCode # '0') when the book is full
bookAfter(intent) ==
    IF placeFor(intent).accepted
    THEN Append(exAlgos,
                acceptedAlgo(placeFor(intent).payload[1], Len(exAlgos) + 1))
    ELSE exAlgos

\* the anchor price of an order on the overlay: the trigger price if
\* present and positive, else the order price; << >> when it is not drawn
anchorPrice(o) ==
    LET isTrigger == Truthy(o.triggerPx) /\ ~IsNaN(o.triggerPx)
                        /\ parseInt(o.triggerPx) > 0
        text == IF isTrigger THEN o.triggerPx ELSE o.px IN
    IF IsNaN(text) \/ parseInt(text) <= 0 THEN << >> ELSE <<parseInt(text)>>

\* an overlay that gives the orders of every instrument a handle
overlayOfAnyInstrument(orders) ==
    SelectSeq(orders, LAMBDA o :
        /\ ~(draggingOrder # << >> /\ draggingOrder[1].ordId = o.ordId)
        /\ anchorPrice(o) # << >>
        /\ priceToCoordinate(seriesData, anchorPrice(o)[1]) # << >>)

\* the orders updateOverlayPosition gives a handle
overlayOf(orders) ==
    SelectSeq(orders, LAMBDA o :
        /\ o.instId = ActiveInst
        /\ ~(draggingOrder # << >> /\ draggingOrder[1].ordId = o.ordId)
        /\ anchorPrice(o) # << >>
        /\ priceToCoordinate(seriesData, anchorPrice(o)[1]) # << >>)

\* the Y of the position handle, null without a position on the instrument
positionYOf ==
    IF position # << >> /\ position[1].instId = ActiveInst
    THEN priceToCoordinate(seriesData, parseInt(position[1].avgPx))
    ELSE << >>

\* what the exchange answers the sub-calls of getOpenOrders(ActiveInst)
ExchangeAnswers(book) ==
    [SWAP |-> [std |-> Answer(<<RestingOrder>>),
               conditional |-> Answer(book),
               oco |-> Answer(<< >>), trigger |-> Answer(<< >>)]]

NoEvent == [type |-> "none", intent |-> NoIntent, released |-> FALSE]

\* the record of a DOM event: what it emitted, and whether a mouseup has
\* been received during a position drag since the last mousedown
Event(type, intent, released) ==
    [type |-> type, intent |-> intent, released |-> released]

\* the algo record the exchange holds from the start: a stop at 5, a
\* take-profit at 15
RestingAlgo ==
    [algoId |-> "a0", instId |-> ActiveInst, side |-> "sell",
     ordType |-> "oco", ordPx |-> << >>, sz |-> <<"2">>, state |-> "live",
     cTime |-> <<"1", "1">>, triggerPx |-> << >>, slTriggerPx |-> <<"5">>,
     tpTriggerPx |-> <<"1", "5">>]

ChartInit ==
    /\ config = Complete
    /\ seriesData = FALSE
    /\ position \in {<<p>> : p \in Positions}
    /\ chartOrders = << >>
    /\ overlayOrders = << >>
    /\ draggingOrder = << >>
    /\ draggingPosition = FALSE
    /\ dragAlgoType = "none"
    /\ positionY = << >>
    /\ lastEvent = NoEvent
    /\ exAlgos = <<RestingAlgo>>
    /\ lastPlace = NoPlace

\* loadInitial: the candles arrive and the series gets its data
LoadCandles ==
    /\ ~seriesData
    /\ seriesData' = TRUE
    /\ UNCHANGED <<chartRest, config, position, chartOrders, overlayOrders,
                   draggingOrder,
                   draggingPosition, dragAlgoType, positionY, lastEvent,
                   exAlgos, lastPlace>>

\* the interval changes: the chart effect removes the chart and creates an
\* empty one; the component's drag state is kept
RecreateChart ==
    /\ seriesData
    /\ seriesData' = FALSE
    /\ UNCHANGED <<chartRest, config, position, chartOrders, overlayOrders,
                   draggingOrder,
                   draggingPosition, dragAlgoType, positionY, lastEvent,
                   exAlgos, lastPlace>>

\* one animation frame: updateOverlayPosition
Frame ==
    /\ overlayOrders' = overlayOf(chartOrders)
    /\ positionY' = positionYOf
    /\ UNCHANGED <<chartRest, config, seriesData, position, chartOrders,
                   draggingOrder,
                   draggingPosition, dragAlgoType, lastEvent, exAlgos,
                   lastPlace>>

\* the owner's poll: setOpenOrders(await service.getOpenOrders(instId))
PollOrders ==
    /\ chartOrders' =
           getOpenOrders(config, ActiveInst, ExchangeAnswers(exAlgos))
    /\ UNCHANGED <<chartRest, config, seriesData, position, overlayOrders,
                   draggingOrder,
                   draggingPosition, dragAlgoType, positionY, lastEvent,
                   exAlgos, lastPlace>>

\* the owner's poll finds the position closed
PositionClosed ==
    /\ position # << >>
    /\ position' = << >>
    /\ UNCHANGED <<chartRest, config, seriesData, chartOrders, overlayOrders,
                   draggingOrder, draggingPosition, dragAlgoType, positionY,
                   lastEvent, exAlgos, lastPlace>>

\* handleMouseDownOrder on the handle of an overlay order
MouseDownOrder(i) ==
    /\ i \in 1..Len(overlayOrders)
    /\ draggingOrder' = <<overlayOrders[i]>>
    /\ lastEvent' = Event("mousedown-order", NoIntent, FALSE)
    /\ UNCHANGED <<chartRest, config, seriesData, position, chartOrders,
                   overlayOrders,
                   draggingPosition, dragAlgoType, positionY, exAlgos,
                   lastPlace>>

\* handleMouseDownPosition on the position handle (drawn iff positionY)
MouseDownPosition ==
    /\ positionY # << >>
    /\ position # << >>
    /\ draggingPosition' = TRUE
    /\ lastEvent' = Event("mousedown-position", NoIntent, FALSE)
    /\ UNCHANGED <<chartRest, config, seriesData, position, chartOrders,
                   overlayOrders,
                   draggingOrder, dragAlgoType, positionY, exAlgos, lastPlace>>

MouseMove(y) ==
    /\ draggingOrder' = handleMouseMove(y).draggingOrder
    /\ draggingPosition' = handleMouseMove(y).draggingPosition
    /\ dragAlgoType' = handleMouseMove(y).dragAlgoType
    /\ lastEvent' = Event("mousemove", NoIntent, lastEvent.released)
    /\ UNCHANGED <<chartRest, config, seriesData, position, chartOrders,
                   overlayOrders, positionY, exAlgos, lastPlace>>

\* a handler result applied: the state setters, and the callback of the
\* owner (onModifyOrder, onAddAlgo) invoked with the intent
Release(type, result) ==
    /\ draggingOrder' = result.g.draggingOrder
    /\ draggingPosition' = result.g.draggingPosition
    /\ dragAlgoType' = result.g.dragAlgoType
    /\ lastEvent' = Event(type, result.intent,
                          lastEvent.released
                              \/ (type = "mouseup" /\ draggingPosition))
    /\ UNCHANGED <<chartRest, config, seriesData, position, chartOrders,
                   overlayOrders, positionY, exAlgos, lastPlace>>

MouseUp(y) == Release("mouseup", handleMouseUp(y))

MouseLeave(y) == Release("mouseleave", handleMouseLeave(y))

\* the create intents the chart can hand to onAddAlgo: a kind and the
\* formatted price of a cursor position
CreateIntents ==
    { CreateIntent(type, formatNumberForApi(coordinateToPrice(TRUE, y))[1]) :
        type \in {"sl", "tp"},
        y \in {z \in Ys : TruthyNum(coordinateToPrice(TRUE, z))} }

\* handleAddAlgo(type, priceVal) of the owner view: placeOrder, the
\* exchange accepts the order while its book has room, then fetchData()
\* refreshes the open orders
AddAlgo(intent) ==
    /\ lastPlace' = placeFor(intent)
    /\ exAlgos' = bookAfter(intent)
    /\ chartOrders' =
           IF placeFor(intent).called
           THEN getOpenOrders(config, ActiveInst,
                              ExchangeAnswers(bookAfter(intent)))
           ELSE chartOrders
    /\ UNCHANGED <<chartRest, config, seriesData, position, overlayOrders,
                   draggingOrder, draggingPosition, dragAlgoType, positionY,
                   lastEvent>>

Next ==
    \/ LoadCandles
    \/ RecreateChart
    \/ Frame
    \/ PollOrders
    \/ PositionClosed
    \/ \E i \in DOMAIN overlayOrders : MouseDownOrder(i)
    \/ MouseDownPosition
    \/ \E y \in Ys : MouseMove(y)
    \/ \E y \in Ys : MouseUp(y)
    \/ \E y \in Ys : MouseLeave(y)

----------------------------------------------------------------------------
(* The normaliser applied: one raw record, and a whole getOpenOrders call *)

NotDecomposed == [done |-> FALSE, out |-> << >>]

NotCalled == [called |-> FALSE, instId |-> << >>, issued |-> << >>,
              out |-> << >>]

SpotInst == <<"BTC", "USDT">>

RawStd(id, inst, time) ==
    [ordId |-> id, instId |-> inst, side |-> "buy", ordType |-> "limit",
     px |-> <<"5">>, sz |-> <<"1">>, state |-> "live", cTime |-> time]

RawAlgo(id, inst, type, time, trig, sl, tp) ==
    [algoId |-> id, instId |-> inst, side |-> "sell", ordType |-> type,
     ordPx |-> << >>, sz |-> <<"2">>, state |-> "live", cTime |-> time,
     triggerPx |-> trig, slTriggerPx |-> sl, tpTriggerPx |-> tp]

\* what the exchange can answer the eight sub-calls of one getOpenOrders
AnswerCombos ==
    [SPOT :
        [std : {Failed, Answer(<< >>),
                Answer(<<RawStd("s1", SpotInst, <<"9">>)>>),
                Answer(<<RawStd("s1", SpotInst, <<"9">>),
                         RawStd("s2", SpotInst, <<"1", "0">>)>>)},
         conditional : {Failed,
                Answer(<<RawAlgo("c1", SpotInst, "conditional", <<"1", "0">>,
                                 << >>, <<"4">>, <<"6">>)>>)},
         oco : {Failed,
                Answer(<<RawAlgo("x1", SpotInst, "oco", <<"9">>,
                                 <<"-", "1">>, <<"3">>, <<"7">>)>>)},
         trigger : {Failed, Answer(<< >>),
                Answer(<<RawAlgo("t1", SpotInst, "trigger", <<"3", "0">>,
                                 <<"8">>, << >>, << >>)>>)}],
     SWAP :
        [std : {Failed, Answer(<<RawStd("w1", ActiveInst, <<"3", "0">>)>>)},
         conditional : {Answer(<< >>),
                Answer(<<RawAlgo("c2", ActiveInst, "conditional", <<"2", "0">>,
                                 Undefined, <<"4">>, Undefined)>>)},
         oco : {Failed, Answer(<< >>)},
         trigger : {Failed, Answer(<< >>)}]]

NoAnswers ==
    [SPOT |-> [std |-> Failed, conditional |-> Failed, oco |-> Failed,
               trigger |-> Failed],
     SWAP |-> [std |-> Failed, conditional |-> Failed, oco |-> Failed,
               trigger |-> Failed]]

\* fetchAlgo on an answer that carries the one record rawAlgo
Decompose ==
    /\ ~legs.done
    /\ legs' = [done |-> TRUE, out |-> fetchAlgo(Answer(<<rawAlgo>>))]
    /\ UNCHANGED <<normRest, config, rawAlgo, subCalls, openOrders>>

GetOpenOrders(instId) ==
    /\ openOrders' = [called |-> TRUE, instId |-> instId,
                      issued |-> issuedBy(config, instId),
                      out |-> getOpenOrders(config, instId, subCalls)]
    /\ lastRead' = [op |-> "getOpenOrders", arg |-> instId,
                    fetches |-> Len(issuedBy(config, instId)),
                    failed |-> \E call \in Range(issuedBy(config, instId)) :
                                  ~subCalls[call[1]][call[2]].ok,
                    threw |-> FALSE,
                    out |-> getOpenOrders(config, instId, subCalls)]
    /\ UNCHANGED <<gwVars, pnl, histVars, chartVars, viewVars, rawAlgo, legs,
                   subCalls>>

----------------------------------------------------------------------------
(* The account client: the read-only operations of OKXService *)

\* what res.data of a successful answer can be: an array of records, no
\* data field, or a value of another shape (mapping it is a TypeError)
Payloads == {"rows", "absent", "malformed"}

\* what one GET can give a read operation: a failure of the request, or
\* an answer with one of the payloads
Fetches ==
    {<<resp, "none">> : resp \in {r \in Responses : r.kind # "ok"}}
        \cup {<<resp, payload>> :
                 resp \in {r \in Responses : r.kind = "ok"},
                 payload \in Payloads}

\* await this.request('GET', path): the error it throws, or res.data
fetched(c, path, got) ==
    LET req == request(c, "GET", path, FALSE, FALSE, got[1]) IN
    [threw |-> req.outcome # "Ok", fetches |-> req.fetches,
     data |-> IF req.outcome = "Ok" THEN got[2] ELSE "none"]

\* the body of a try block after its request: the rows it maps, the value
\* it takes when there is no data, a TypeError for another shape
mapped(f, rows, absent) ==
    IF f.threw THEN [threw |-> TRUE, out |-> << >>]
    ELSE IF f.data = "rows" THEN [threw |-> FALSE, out |-> rows]
    ELSE IF f.data = "absent" THEN [threw |-> FALSE, out |-> absent]
    ELSE [threw |-> TRUE, out |-> << >>]

\* a try block without its catch
noCatch(r, onError) == r

\* try { ... } catch (e) { return onError }
tryCatch(r, onError) ==
    IF r.threw THEN [threw |-> FALSE, out |-> onError] ELSE r

InstrumentsPath == <<"api", "v5", "public", "instruments">>

TickersPath == <<"api", "v5", "market", "tickers">>

PositionsPath == <<"api", "v5", "account", "positions">>

FillsPath == <<"api", "v5", "trade", "fills-history">>

PositionsHistoryPath == <<"api", "v5", "account", "positions-history">>

\* the instruments the exchange lists for a type
InstrumentRows(type) ==
    IF type = "SWAP"
    THEN <<[instId |-> ActiveInst, instType |-> "SWAP", ctVal |-> <<"1", "0">>]>>
    ELSE <<[instId |-> SpotInst, instType |-> "SPOT", ctVal |-> Undefined]>>

\* the list getInstruments falls back to
fallback ==
    <<[instId |-> <<"BTC", "USDT">>, instType |-> "SPOT", ctVal |-> Undefined],
      [instId |-> <<"ETH", "USDT">>, instType |-> "SPOT", ctVal |-> Undefined]>>

\* fallback.filter(i => i.instType === type)
fallbackOf(type) ==
    LET OfType(i) == i.instType = type IN SelectSeq(fallback, OfType)

\* getInstruments(type) of the first copy
getInstruments(c, type, got) ==
    tryCatch(mapped(fetched(c, InstrumentsPath, got), InstrumentRows(type),
                    << >>),
             fallbackOf(type))

\* getInstruments of the second copy: catch (e) { return []; }
getInstrumentsB(c, type, got) ==
    tryCatch(mapped(fetched(c, InstrumentsPath, got), InstrumentRows(type),
                    << >>),
             << >>)

\* the tickers the exchange lists for a type
TickerRows(type) ==
    <<[instId |-> IF type = "SWAP" THEN ActiveInst ELSE SpotInst,
       last |-> <<"1", "0", "0">>]>>

getMarketTickers(c, type, got) ==
    tryCatch(mapped(fetched(c, TickersPath, got), TickerRows(type), << >>),
             << >>)

\* the positions the exchange reports: one on a listed instrument, one on
\* an instrument the instrument list does not have
PositionRows ==
    <<[instId |-> ActiveInst, pos |-> <<"2">>, ctVal |-> Undefined],
      [instId |-> <<"ETH", "USDT", "SWAP">>, pos |-> <<"1">>,
       ctVal |-> Undefined]>>

\* { ...p, ctVal: inst?.ctVal || '1' } with inst the first instrument of
\* the position's id
withCtVal(positions, instRes) ==
    [i \in DOMAIN positions |->
        LET found == {j \in DOMAIN instRes :
                         instRes[j].instId = positions[i].instId} IN
        [positions[i] EXCEPT !.ctVal =
            IF found # {}
               /\ Truthy(instRes[CHOOSE j \in found :
                                    \A k \in found : j <= k].ctVal)
            THEN instRes[CHOOSE j \in found : \A k \in found : j <= k].ctVal
            ELSE <<"1">>]]

\* getPositions(): the positions request and getInstruments('SWAP') are
\* started together
getPositions(c, instRes, got) ==
    IF ~hasKeys(c) THEN [threw |-> FALSE, out |-> << >>]
    ELSE tryCatch(mapped(fetched(c, PositionsPath, got),
                         withCtVal(PositionRows, instRes), << >>),
                  << >>)

\* the stable sort with (a, b) => parseInt(b[key]) - parseInt(a[key])
RECURSIVE InsertDescBy(_, _, _)
InsertDescBy(sorted, x, key) ==
    IF sorted = << >> THEN <<x>>
    ELSE IF parseInt(x[key]) - parseInt(Head(sorted)[key]) > 0
         THEN <<x>> \o sorted
         ELSE <<Head(sorted)>> \o InsertDescBy(Tail(sorted), x, key)

RECURSIVE SortDescFrom(_, _, _)
SortDescFrom(sorted, rest, key) ==
    IF rest = << >> THEN sorted
    ELSE SortDescFrom(InsertDescBy(sorted, Head(rest), key), Tail(rest), key)

\* the fills the exchange reports for a type
FillRows(type) ==
    IF type = "SWAP"
    THEN <<[instId |-> ActiveInst, ts |-> <<"7">>]>>
    ELSE <<[instId |-> SpotInst, ts |-> <<"5">>],
           [instId |-> SpotInst, ts |-> <<"9">>]>>

\* getTradeHistory() of the first copy: the SPOT and the SWAP fills are
\* asked for together, `res?.data || []` of each, merged and sorted
getTradeHistory(c, gotSpot, gotSwap) ==
    LET spot == mapped(fetched(c, FillsPath, gotSpot), FillRows("SPOT"), << >>)
        swap == mapped(fetched(c, FillsPath, gotSwap), FillRows("SWAP"), << >>)
        all == [threw |-> spot.threw \/ swap.threw,
                out |-> SortDescFrom(<< >>, spot.out \o swap.out, "ts")] IN
    IF ~hasKeys(c) THEN [threw |-> FALSE, out |-> << >>]
    ELSE tryCatch(all, << >>)

\* getTradeHistory of the second copy: the SPOT fills only
getTradeHistoryB(c, gotSpot) ==
    LET spot == mapped(fetched(c, FillsPath, gotSpot),
                       SortDescFrom(<< >>, FillRows("SPOT"), "ts"), << >>) IN
    IF ~hasKeys(c) THEN [threw |-> FALSE, out |-> << >>]
    ELSE tryCatch(spot, << >>)

\* the closed positions the exchange reports
ClosedRows ==
    <<[instId |-> ActiveInst, uTime |-> <<"3">>],
      [instId |-> ActiveInst, uTime |-> <<"8">>]>>

\* getPositionsHistory() (second copy only)
getPositionsHistory(c, got) ==
    LET swap == mapped(fetched(c, PositionsHistoryPath, got),
                       SortDescFrom(<< >>, ClosedRows, "uTime"), << >>) IN
    IF ~hasKeys(c) THEN [threw |-> FALSE, out |-> << >>]
    ELSE tryCatch(swap, << >>)

\* the record of a read: what it was asked, what it did and what it gave
readOf(op, arg, fetches, gots, r) ==
    [op |-> op, arg |-> arg, fetches |-> fetches,
     failed |-> fetches > 0
                /\ \E got \in gots : got[1].kind # "ok" \/ got[2] = "malformed",
     threw |-> r.threw, out |-> r.out]

GetInstruments(copy, type, got) ==
    /\ lastRead' = readOf("getInstruments", <<type>>, 1, {got},
                          IF copy = "part_002"
                          THEN getInstruments(config, type, got)
                          ELSE getInstrumentsB(config, type, got))
    /\ UNCHANGED readRest /\ UNCHANGED config

GetMarketTickers(type, got) ==
    /\ lastRead' = readOf("getMarketTickers", <<type>>, 1, {got},
                          getMarketTickers(config, type, got))
    /\ UNCHANGED readRest /\ UNCHANGED config

GetPositions(copy, got, gotInst) ==
    LET instRes == IF copy = "part_002"
                   THEN getInstruments(config, "SWAP", gotInst).out
                   ELSE getInstrumentsB(config, "SWAP", gotInst).out IN
    /\ lastRead' = readOf("getPositions", << >>,
                          IF hasKeys(config) THEN 2 ELSE 0, {got},
                          getPositions(config, instRes, got))
    /\ UNCHANGED readRest /\ UNCHANGED config

GetTradeHistory(copy, gotSpot, gotSwap) ==
    /\ lastRead' = IF copy = "part_002"
                   THEN readOf("getTradeHistory", << >>,
                               IF hasKeys(config) THEN 2 ELSE 0,
                               {gotSpot, gotSwap},
                               getTradeHistory(config, gotSpot, gotSwap))
                   ELSE readOf("getTradeHistory", << >>,
                               IF hasKeys(config) THEN 1 ELSE 0, {gotSpot},
                               getTradeHistoryB(config, gotSpot))
    /\ UNCHANGED readRest /\ UNCHANGED config

GetPositionsHistory(got) ==
    /\ lastRead' = readOf("getPositionsHistory", << >>,
                          IF hasKeys(config) THEN 1 ELSE 0, {got},
                          getPositionsHistory(config, got))
    /\ UNCHANGED readRest /\ UNCHANGED config

----------------------------------------------------------------------------
(* The market data client: OKXService.getCandles *)

\* the exchange has a candle at some of the seconds 1..MaxCandles
MaxCandles == 3

\* limit=100 of the history-candles query
PageLimit == 100

CandlesPath == <<"api", "v5", "market", "history-candles">>

\* the values of the optional argument `after`: undefined, or a time in
\* seconds
Afters == {<< >>} \cup {<<t>> : t \in 0..(MaxCandles + 1)}

\* if (after) query += `&after=${after * 1000}`: the cursor of the query
candleCursor(after) ==
    IF after # << >> /\ after[1] # 0 THEN <<after[1] * 1000>> ELSE << >>

\* the times of a set, latest first
RECURSIVE NewestFirst(_)
NewestFirst(times) ==
    IF times = {} THEN << >>
    ELSE LET latest == CHOOSE t \in times : \A u \in times : u <= t IN
         <<latest>> \o NewestFirst(times \ {latest})

\* what the exchange answers: the candles older than the cursor, or the
\* latest ones when there is no cursor, newest first, at most PageLimit
historyCandles(book, cursor) ==
    LET times == NewestFirst({t \in book :
                                 cursor = << >> \/ t * 1000 < cursor[1]})
        page == IF Len(times) > PageLimit THEN SubSeq(times, 1, PageLimit)
                ELSE times IN
    [i \in DOMAIN page |-> [ts |-> toString(page[i] * 1000),
                            c |-> toString(100 + page[i])]]

\* res.data.map(c => ({ time: parseInt(c[0]) / 1000, ... close:
\* parseFloat(c[4]) })).reverse()
toCandles(data) ==
    [i \in DOMAIN data |->
        [time |-> parseInt(data[Len(data) + 1 - i].ts) \div 1000,
         close |-> parseInt(data[Len(data) + 1 - i].c)]]

getCandles(c, after, book, got) ==
    tryCatch(mapped(fetched(c, CandlesPath, got),
                    toCandles(historyCandles(book, candleCursor(after))),
                    << >>),
             << >>)

\* getCandles(instId, bar, after): the argument, the cursor it sent and the
\* candles the exchange has are kept with the result
GetCandles(after, book, got) ==
    /\ lastRead' = readOf("getCandles", <<after, candleCursor(after), book>>,
                          1, {got}, getCandles(config, after, book, got))
    /\ UNCHANGED readRest /\ UNCHANGED config

----------------------------------------------------------------------------
(* utils/formatting: calculatePnL *)

\* a profit that takes every position for a long one
calculatePnLLongOnly(entryPrice, exitPrice, size, side, contractVal) ==
    (exitPrice - entryPrice) * (size * contractVal)

\* calculatePnL(entryPrice, exitPrice, size, side, contractVal), on
\* integers
calculatePnL(entryPrice, exitPrice, size, side, contractVal) ==
    LET q == size * contractVal IN
    IF side = "long" \/ side = "net" THEN (exitPrice - entryPrice) * q
    ELSE (entryPrice - exitPrice) * q

\* contractVal: number = 1, the value of a parameter that may be left out
contractValOf(given) == IF given = << >> THEN 1 ELSE given[1]

\* a call of calculatePnL; contractVal may be left out
Calculate(entryPrice, exitPrice, size, side, given) ==
    /\ pnl' = [done |-> TRUE, entryPrice |-> entryPrice,
               exitPrice |-> exitPrice, size |-> size, side |-> side,
               contractVal |-> contractValOf(given),
               out |-> calculatePnL(entryPrice, exitPrice, size, side,
                                    contractValOf(given))]
    /\ UNCHANGED pnlRest

----------------------------------------------------------------------------
(* TradingChart: the mount effect, its requests and its timers *)

\* the mount effect runs at most MaxEffects times
MaxEffects == 2

\* at most MaxInFlight requests of one loop are in flight
MaxInFlight == 2

\* the instruments a view can show
Instruments == {ActiveInst, SpotInst}

\* what the exchange holds when it answers: the latest candle only, or
\* every candle
Books == {k..MaxCandles : k \in {1, MaxCandles}}

\* a candle request is answered with rows, or fails on the wire
CandleFetches ==
    {<<[kind |-> "ok", status |-> 200, json |-> "data"], "rows">>,
     <<[kind |-> "rejected", status |-> 0, json |-> "none"], "none">>}

\* a request in flight, with what its continuation has closed over: the
\* run of the effect, the instrument, the series data and the cursor
Req(loop, effect, instId, data, after) ==
    [loop |-> loop, effect |-> effect, instId |-> instId, data |-> data,
     after |-> after]

\* the requests of a loop that are in flight
InFlight(loop) ==
    LET of == {r \in BagToSet(pending) : r.loop = loop} IN
    BagCardinality([r \in of |-> pending[r]])

\* the requests of a loop that one run of an effect has in flight
InFlightOf(loop, effect) ==
    LET of == {r \in BagToSet(pending) :
                  r.loop = loop /\ r.effect = effect} IN
    BagCardinality([r \in of |-> pending[r]])

issue(r) == pending (+) SetToBag({r})

settle(r) == pending (-) SetToBag({r})

\* let isMounted = true, as the closures of one run of the effect see it
isMounted(effect) == chart.isMounted /\ chart.effect = effect

\* what a tick or a continuation did: whether it issued a request, whether
\* a request of its loop and run was in flight then, whether its effect
\* had been cleaned up, and whether it changed the state of a view
Step(op, r, issued, applied, stale) ==
    [op |-> op, loop |-> r.loop, effect |-> r.effect, instId |-> r.instId,
     issued |-> issued,
     overlapped |-> issued /\ InFlightOf(r.loop, r.effect) > 0,
     stale |-> stale, applied |-> applied, order |-> << >>]

\* the loops of the chart's effect
ChartLoops == {"loadInitial", "backfill", "candlePoll", "tickerPoll"}

\* the timers one run of the chart's effect has set
chartTimers(effect) ==
    {t \in timers : t.loop \in ChartLoops /\ t.effect = effect}

\* the effect runs: on mount, and again when instId, theme, interval,
\* service or colorMode change, then after the cleanup of the run before.
\* The chart and its series are created, the range handler closes over
\* the isLoadingMore of this render, loadInitial is called and the two
\* intervals are set
RunEffect(instId) ==
    LET e == chart.effect + 1
        r == Req("loadInitial", e, instId, << >>, << >>) IN
    /\ chart.isMounted \/ chart.effect = 0
    /\ chart.effect < MaxEffects
    /\ InFlight("loadInitial") < MaxInFlight
    /\ chart' = [chart EXCEPT !.isMounted = TRUE, !.effect = e,
                              !.instId = instId, !.series = << << >> >>,
                              !.seenLoadingMore = chart.isLoadingMore]
    /\ pending' = issue(r)
    /\ timers' = (timers \ chartTimers(chart.effect))
                     \cup {[loop |-> l, effect |-> e, instId |-> instId] :
                              l \in {"candlePoll", "tickerPoll"}}
    /\ lastStep' = [op |-> "effect", loop |-> "loadInitial", effect |-> e,
                    instId |-> instId, issued |-> TRUE,
                    overlapped |-> FALSE, stale |-> FALSE,
                    applied |-> FALSE, order |-> << >>]
    /\ UNCHANGED chartOnly

\* the component unmounts, the cleanup of the effect runs: isMounted =
\* false, both intervals cleared, the chart removed, chartRef.current =
\* seriesRef.current = null
Cleanup ==
    /\ chart.isMounted
    /\ chart' = [chart EXCEPT !.isMounted = FALSE, !.series = << >>]
    /\ timers' = timers \ chartTimers(chart.effect)
    /\ lastStep' = [NoStep EXCEPT !.op = "cleanup", !.effect = chart.effect,
                                  !.instId = chart.instId]
    /\ UNCHANGED <<pending, chartOnly>>

\* the continuation of loadInitial
LoadInitialResponse(r, book, got) ==
    LET data == getCandles(config, << >>, book, got).out
        sets == isMounted(r.effect) /\ chart.series # << >> /\ Len(data) > 0
    IN
    /\ BagIn(r, pending) /\ r.loop = "loadInitial"
    /\ chart' = IF sets THEN [chart EXCEPT !.series = <<data>>] ELSE chart
    /\ pending' = settle(r)
    /\ lastStep' = Step("response", r, FALSE, sets, ~isMounted(r.effect))
    /\ UNCHANGED <<timers, chartOnly>>

\* newVisibleLogicalRange.from of a range change
Froms == {-1, 0}

\* the handler of subscribeVisibleLogicalRangeChange, up to its await: the
\* chart of a cleaned-up effect is removed and calls no handler
RangeChange(from) ==
    LET data == chart.series[1]
        r == Req("backfill", chart.effect, chart.instId, data,
                 <<data[1].time>>)
        asks == /\ ~chart.seenLoadingMore
                /\ from < 0
                /\ Len(data) > 0 IN
    /\ chart.isMounted /\ chart.series # << >>
    /\ asks => InFlight("backfill") < MaxInFlight
    /\ chart' = IF asks THEN [chart EXCEPT !.isLoadingMore = TRUE] ELSE chart
    /\ pending' = IF asks THEN issue(r) ELSE pending
    /\ lastStep' = IF asks THEN Step("rangeChange", r, TRUE, FALSE, FALSE)
                   ELSE [NoStep EXCEPT !.op = "rangeChange",
                                       !.loop = "backfill",
                                       !.effect = chart.effect,
                                       !.instId = chart.instId]
    /\ UNCHANGED <<timers, chartOnly>>

\* the handler after its await: setData([...moreData, ...data]) and the
\* finally block
BackfillResponse(r, book, got) ==
    LET moreData == getCandles(config, r.after, book, got).out
        sets == Len(moreData) > 0 /\ isMounted(r.effect) IN
    /\ BagIn(r, pending) /\ r.loop = "backfill"
    /\ chart' = [chart EXCEPT
                    !.series = IF sets THEN <<moreData \o r.data>> ELSE @,
                    !.isLoadingMore = IF isMounted(r.effect) THEN FALSE
                                      ELSE @]
    /\ pending' = settle(r)
    /\ lastStep' = Step("response", r, FALSE, sets, ~isMounted(r.effect))
    /\ UNCHANGED <<timers, chartOnly>>

\* series.update(bar) of the chart library: a bar at the time of the last
\* one replaces it, a later bar is appended, an earlier bar is an error
\* (thrown inside the try blocks of the polls, which swallow it)
update(data, bar) ==
    IF data = << >> THEN <<bar>>
    ELSE IF bar.time > data[Len(data)].time THEN Append(data, bar)
    ELSE IF bar.time = data[Len(data)].time
         THEN [data EXCEPT ![Len(data)] = bar]
    ELSE data

\* an interval fires and its callback issues its request: in the chart's
\* intervals the guards on isMounted and the refs hold while the interval
\* is set
IntervalTick(t, r, stale) ==
    /\ t \in timers
    /\ InFlight(t.loop) < MaxInFlight
    /\ pending' = issue(r)
    /\ lastStep' = Step("tick", r, TRUE, FALSE, stale)
    /\ UNCHANGED <<timers, viewRest>>

\* candlePoll, up to its await
CandleTick(t) ==
    /\ t.loop = "candlePoll"
    /\ IntervalTick(t, Req("candlePoll", t.effect, t.instId, << >>, << >>),
                    ~isMounted(t.effect))
    /\ UNCHANGED <<chart, trade, sidebar, dash>>

\* candlePoll after its await
CandlePollResponse(r, book, got) ==
    LET data == getCandles(config, << >>, book, got).out
        updates == /\ isMounted(r.effect) /\ chart.series # << >>
                   /\ Len(data) > 0 IN
    /\ BagIn(r, pending) /\ r.loop = "candlePoll"
    /\ chart' = IF updates
                THEN [chart EXCEPT
                         !.series = <<update(@[1], data[Len(data)])>>]
                ELSE chart
    /\ pending' = settle(r)
    /\ lastStep' = Step("response", r, FALSE, updates, ~isMounted(r.effect))
    /\ UNCHANGED <<timers, chartOnly>>

TickerPath == <<"api", "v5", "market", "ticker">>

\* the last price of an instrument
lastPrice(instId) ==
    IF instId = ActiveInst THEN <<"1", "1", "0">> ELSE <<"1", "2", "0">>

\* getTicker(instId): res.data[0], or an error
getTicker(c, instId, got) ==
    LET f == fetched(c, TickerPath, got) IN
    IF f.threw \/ f.data # "rows" THEN [threw |-> TRUE, out |-> << >>]
    ELSE [threw |-> FALSE,
          out |-> <<[instId |-> instId, last |-> lastPrice(instId)]>>]

\* what a ticker request can give: the ticker, no data, or a failure
TickerFetches ==
    CandleFetches
        \cup {<<[kind |-> "ok", status |-> 200, json |-> "data"], "absent">>}

\* tickerPoll, up to its await
TickerTick(t) ==
    /\ t.loop = "tickerPoll"
    /\ IntervalTick(t, Req("tickerPoll", t.effect, t.instId, << >>, << >>),
                    ~isMounted(t.effect))
    /\ UNCHANGED <<chart, trade, sidebar, dash>>

\* tickerPoll after its await: seriesRef.current is read again, without a
\* look at isMounted; on null the TypeError is swallowed by the catch
TickerResponse(r, got) ==
    LET ticker == getTicker(config, r.instId, got)
        data == chart.series[1]
        updates == ~ticker.threw /\ chart.series # << >> /\ Len(data) > 0
        bar == [data[Len(data)] EXCEPT !.close = parseInt(ticker.out[1].last)]
    IN
    /\ BagIn(r, pending) /\ r.loop = "tickerPoll"
    /\ chart' = IF updates THEN [chart EXCEPT !.series = <<update(data, bar)>>]
                ELSE chart
    /\ pending' = settle(r)
    /\ lastStep' = Step("response", r, FALSE, updates, ~isMounted(r.effect))
    /\ UNCHANGED <<timers, chartOnly>>

----------------------------------------------------------------------------
(* The views and their polling effects: TradeInterface, MarketSidebar,  *)
(* Dashboard                                                            *)

\* the open orders of the exchange when it answers: none, or two standard
\* orders and an algo record with a stop-loss and a take-profit leg on the
\* spot instrument, a standard order and a stop-loss on the swap
Quiet == [ok |-> TRUE, data |-> << >>]

NoOrders ==
    [SPOT |-> [std |-> Quiet, conditional |-> Quiet, oco |-> Quiet,
               trigger |-> Quiet],
     SWAP |-> [std |-> Quiet, conditional |-> Quiet, oco |-> Quiet,
               trigger |-> Quiet]]

SomeOrders ==
    [SPOT |-> [std |-> Answer(<<RawStd("s1", SpotInst, <<"9">>),
                                RawStd("s2", SpotInst, <<"8">>)>>),
               conditional |-> Quiet,
               oco |-> Answer(<<RawAlgo("x1", SpotInst, "oco", <<"7">>,
                                        <<"-", "1">>, <<"3">>, <<"7">>)>>),
               trigger |-> Quiet],
     SWAP |-> [std |-> Answer(<<RawStd("w1", ActiveInst, <<"9">>)>>),
               conditional |->
                   Answer(<<RawAlgo("c2", ActiveInst, "conditional",
                                    <<"8">>, Undefined, <<"4">>,
                                    Undefined)>>),
               oco |-> Quiet, trigger |-> Quiet]]

OrderBooks == {NoOrders, SomeOrders}

\* what getPositions and getBalances return: nothing, or a list
PositionLists == {<< >>, <<[instId |-> ActiveInst, pos |-> <<"1">>]>>}

BalanceLists == {<< >>, <<[ccy |-> "USDT", eqUsd |-> <<"9">>]>>}

\* the effect of the trade view that ran as number `effect` has not been
\* cleaned up
tradeMounted(effect) == trade.isMounted /\ trade.effect = effect

\* the effect of the sidebar that ran as number `effect` has not been
\* cleaned up
sidebarMounted(effect) == sidebar.isMounted /\ sidebar.effect = effect

\* let isMounted = true of one run of the dashboard's effect
dashMounted(effect) == dash.isMounted /\ dash.effect = effect

\* the timers one run of the trade view's effect has set and not cleared
tradeTimers(effect) ==
    {t \in timers : t.loop = "tradePoll" /\ t.effect = effect}

\* fetchData up to its await, with the viewMode of the render it closes
\* over and isMountedRef.current as it is at the call
fetchData(r, viewMode, isMountedRef) ==
    IF viewMode # "trade" \/ ~isMountedRef THEN pending ELSE issue(r)

\* the polling effect of the trade view runs (after the mount, at most
\* MaxEffects times), after the cleanup of the run before:
\* isMountedRef.current = false and clearTimeout(timerId), then
\* isMountedRef.current = true, fetchData() and, in the trade mode, the
\* first timeout
TradeEffect(viewMode, instId) ==
    LET e == trade.effect + 1 IN
    /\ trade.effect <= MaxEffects
    /\ InFlight("fetchData") < MaxInFlight
    /\ trade' = [trade EXCEPT !.isMounted = TRUE, !.effect = e,
                              !.viewMode = viewMode, !.instId = instId]
    /\ pending' = fetchData(Req("fetchData", e, instId, << >>, << >>),
                            viewMode, TRUE)
    /\ timers' = (timers \ tradeTimers(trade.effect))
                     \cup (IF viewMode = "trade"
                           THEN {[loop |-> "tradePoll", effect |-> e,
                                  instId |-> instId]}
                           ELSE {})
    /\ lastStep' = [op |-> "effect", loop |-> "fetchData", effect |-> e,
                    instId |-> instId, issued |-> viewMode = "trade",
                    overlapped |-> FALSE, stale |-> FALSE,
                    applied |-> FALSE, order |-> << >>]
    /\ UNCHANGED tradeOnly

\* the trade view mounts, in the market mode and on BTC-USDT
TradeMount ==
    /\ trade = NoTrade
    /\ TradeEffect(trade.viewMode, trade.instId)

\* handleSelectInstrument(id): setInstId(id) and the trade mode; the effect
\* runs again when the instrument or the mode changed
handleSelectInstrument(id) ==
    /\ trade.isMounted
    /\ <<"trade", id>> # <<trade.viewMode, trade.instId>>
    /\ TradeEffect("trade", id)

\* handleBack: the market mode
handleBack ==
    /\ trade.isMounted /\ trade.viewMode = "trade"
    /\ TradeEffect("market", trade.instId)

\* the trade view unmounts: the cleanup of its effect
TradeUnmount ==
    /\ trade.isMounted
    /\ trade' = [trade EXCEPT !.isMounted = FALSE]
    /\ timers' = timers \ tradeTimers(trade.effect)
    /\ lastStep' = [NoStep EXCEPT !.op = "cleanup", !.loop = "tradePoll",
                                  !.effect = trade.effect,
                                  !.instId = trade.instId]
    /\ UNCHANGED <<pending, tradeOnly>>

\* a timeout of poll fires: poll up to the await of fetchData.  The
\* closure of poll was made in the trade mode
PollTick(t) ==
    LET r == Req("tradePoll", t.effect, t.instId, << >>, << >>) IN
    /\ t \in timers /\ t.loop = "tradePoll"
    /\ InFlight("tradePoll") < MaxInFlight
    /\ timers' = timers \ {t}
    /\ pending' = IF trade.isMounted
                  THEN fetchData(r, "trade", trade.isMounted)
                  ELSE pending
    /\ lastStep' = Step("tick", r, trade.isMounted, FALSE,
                        ~tradeMounted(t.effect))
    /\ UNCHANGED <<trade, tradeOnly>>

\* fetchData after its await: the five results are set, or the catch block
\* empties the order list; then, in poll, the next timeout
FetchDataResponse(r, got, book, poss, bals) ==
    LET tk == getTicker(config, r.instId, got)
        ords == getOpenOrders(config, r.instId, book)
        after ==
            IF tk.threw
            THEN IF trade.isMounted THEN [trade EXCEPT !.openOrders = << >>]
                 ELSE trade
            ELSE IF ~trade.isMounted THEN trade
            ELSE [trade EXCEPT !.ticker = tk.out, !.openOrders = ords,
                               !.positions = poss, !.balances = bals] IN
    /\ BagIn(r, pending) /\ r.loop \in {"fetchData", "tradePoll"}
    /\ trade' = after
    /\ pending' = settle(r)
    /\ timers' = IF r.loop = "tradePoll" /\ trade.isMounted
                 THEN timers \cup {[loop |-> "tradePoll", effect |-> r.effect,
                                    instId |-> r.instId]}
                 ELSE timers
    /\ lastStep' = Step("response", r, FALSE, trade.isMounted,
                        ~tradeMounted(r.effect))
    /\ UNCHANGED tradeOnly

\* the timers one run of the sidebar's effect has set; the type of a
\* sidebar request stands where the instrument of the others does
sidebarTimers(effect) ==
    {t \in timers : t.loop = "marketTickers" /\ t.effect = effect}

\* the polling effect of the sidebar runs, on mount and when the type
\* changes, after the cleanup of the run before: fetch() and the interval
SidebarEffect(type) ==
    LET e == sidebar.effect + 1 IN
    /\ sidebar.isMounted \/ sidebar.effect = 0
    /\ sidebar.effect = 0 => type = sidebar.type
    /\ sidebar.effect > 0 => type # sidebar.type
    /\ sidebar.effect < MaxEffects
    /\ InFlight("fetch") < MaxInFlight
    /\ sidebar' = [sidebar EXCEPT !.isMounted = TRUE, !.effect = e,
                                  !.type = type]
    /\ pending' = issue(Req("fetch", e, <<type>>, << >>, << >>))
    /\ timers' = (timers \ sidebarTimers(sidebar.effect))
                     \cup {[loop |-> "marketTickers", effect |-> e,
                            instId |-> <<type>>]}
    /\ lastStep' = [op |-> "effect", loop |-> "fetch", effect |-> e,
                    instId |-> <<type>>, issued |-> TRUE, overlapped |-> FALSE,
                    stale |-> FALSE, applied |-> FALSE,
                    order |-> << >>]
    /\ UNCHANGED sideOnly

\* the sidebar unmounts: clearInterval(interval)
SidebarUnmount ==
    /\ sidebar.isMounted
    /\ sidebar' = [sidebar EXCEPT !.isMounted = FALSE]
    /\ timers' = timers \ sidebarTimers(sidebar.effect)
    /\ lastStep' = [NoStep EXCEPT !.op = "cleanup", !.loop = "marketTickers",
                                  !.effect = sidebar.effect]
    /\ UNCHANGED <<pending, sideOnly>>

\* the interval of the sidebar fires: fetch up to its await
SidebarTick(t) ==
    /\ t.loop = "marketTickers"
    /\ IntervalTick(t, Req("marketTickers", t.effect, t.instId, << >>, << >>),
                    ~sidebarMounted(t.effect))
    /\ UNCHANGED <<chart, trade, sidebar, dash>>

\* fetch after its await: setTickers(data), which React drops once the
\* component has unmounted
SidebarResponse(r, got) ==
    LET data == getMarketTickers(config, r.instId[1], got).out IN
    /\ BagIn(r, pending) /\ r.loop \in {"fetch", "marketTickers"}
    /\ sidebar' = IF sidebar.isMounted THEN [sidebar EXCEPT !.tickers = data]
                  ELSE sidebar
    /\ pending' = settle(r)
    /\ lastStep' = Step("response", r, FALSE, sidebar.isMounted,
                        ~sidebarMounted(r.effect))
    /\ UNCHANGED <<timers, sideOnly>>

\* the timers one run of the dashboard's effect has set
dashTimers(effect) ==
    {t \in timers : t.loop = "fetchOrders" /\ t.effect = effect}

\* the order effect of the dashboard runs, on mount and when the expanded
\* position changes, after the cleanup of the run before
DashEffect(expandedPosition) ==
    LET e == dash.effect + 1
        expanded == expandedPosition # << >> IN
    /\ dash.isMounted \/ dash.effect = 0
    /\ dash.effect = 0 => expandedPosition = << >>
    /\ dash.effect > 0 => expandedPosition # dash.expandedPosition
    /\ dash.effect < MaxEffects
    /\ InFlight("firstOrders") < MaxInFlight
    /\ dash' = [dash EXCEPT !.isMounted = TRUE, !.effect = e,
                            !.expandedPosition = expandedPosition,
                            !.expandedOrders = IF expanded THEN @ ELSE << >>]
    /\ pending' = IF expanded
                  THEN issue(Req("firstOrders", e, expandedPosition,
                                 << >>, << >>))
                  ELSE pending
    /\ timers' = (timers \ dashTimers(dash.effect))
                     \cup (IF expanded
                           THEN {[loop |-> "fetchOrders", effect |-> e,
                                  instId |-> expandedPosition]}
                           ELSE {})
    /\ lastStep' = [op |-> "effect", loop |-> "firstOrders", effect |-> e,
                    instId |-> expandedPosition, issued |-> expanded,
                    overlapped |-> FALSE, stale |-> FALSE,
                    applied |-> ~expanded, order |-> << >>]
    /\ UNCHANGED dashOnly

\* the dashboard unmounts
DashUnmount ==
    /\ dash.isMounted
    /\ dash' = [dash EXCEPT !.isMounted = FALSE]
    /\ timers' = timers \ dashTimers(dash.effect)
    /\ lastStep' = [NoStep EXCEPT !.op = "cleanup", !.loop = "fetchOrders",
                                  !.effect = dash.effect]
    /\ UNCHANGED <<pending, dashOnly>>

\* the interval of the dashboard fires: fetchOrders up to its await
DashTick(t) ==
    /\ t.loop = "fetchOrders"
    /\ IntervalTick(t, Req("fetchOrders", t.effect, t.instId, << >>, << >>),
                    ~dashMounted(t.effect))
    /\ UNCHANGED <<chart, trade, sidebar, dash>>

\* fetchOrders after its await: if (isMounted) setExpandedOrders(ords)
DashResponse(r, book) ==
    LET ords == getOpenOrders(config, r.instId, book) IN
    /\ BagIn(r, pending) /\ r.loop \in {"firstOrders", "fetchOrders"}
    /\ dash' = IF dashMounted(r.effect)
               THEN [dash EXCEPT !.expandedOrders = ords]
               ELSE dash
    /\ pending' = settle(r)
    /\ lastStep' = Step("response", r, FALSE, dashMounted(r.effect),
                        ~dashMounted(r.effect))
    /\ UNCHANGED <<timers, dashOnly>>

----------------------------------------------------------------------------
(* The views' order handlers: handleCancelOrder, handleModifyOrder *)

\* the arguments handleCancelOrder passes to cancelOrder
cancelArg(order) ==
    [instId |-> order.instId, ordId |-> order.ordId, algoId |-> order.algoId]

\* a filter that drops the order and, for an algo order, the legs of its
\* algo record
keepOthers(prev, order) ==
    SelectSeq(prev, LAMBDA o :
        /\ o.ordId # order.ordId
        /\ ~(TruthyId(order.algoId) /\ o.algoId = order.algoId))

\* prev.filter(o => (o.ordId !== order.ordId && o.algoId !== order.algoId))
afterCancel(prev, order) ==
    SelectSeq(prev, LAMBDA o :
        o.ordId # order.ordId /\ o.algoId # order.algoId)

\* the field of the request handleModifyOrder sets for an order
modifiedField(order) ==
    IF order.ordType = "sl" THEN "newSlTriggerPx"
    ELSE IF order.ordType = "tp" THEN "newTpTriggerPx"
    ELSE IF order.ordType \in {"conditional", "trigger"} THEN "newTriggerPx"
    ELSE IF order.ordType = "limit" THEN "newPx"
    ELSE IF Truthy(order.triggerPx) THEN "newTriggerPx"
    ELSE "newPx"

\* a request that names every order by its order id
modifyRequestByOrderId(order, newPx) ==
    [f \in AmendFields \cup {"instId", "ordId", "algoId"} |->
        IF f = "instId" THEN order.instId
        ELSE IF f = "ordId" THEN order.ordId
        ELSE IF f = "algoId" THEN NoId
        ELSE IF f = modifiedField(order) THEN newPx
        ELSE Undefined]

\* the request handleModifyOrder builds: instId, ordId and algoId of the
\* order, ordId deleted for an algo order, and the one new-value field
modifyRequest(order, newPx) ==
    [f \in AmendFields \cup {"instId", "ordId", "algoId"} |->
        IF f = "instId" THEN order.instId
        ELSE IF f = "ordId"
             THEN (IF TruthyId(order.algoId) THEN NoId ELSE order.ordId)
        ELSE IF f = "algoId" THEN order.algoId
        ELSE IF f = modifiedField(order) THEN newPx
        ELSE Undefined]

\* the services the views import
cancelBy(copy, arg, resp) ==
    IF copy = "part_002" THEN cancelOrder(config, arg, resp)
    ELSE cancelOrderB(config, arg, resp)

amendBy(copy, req, resp) ==
    IF copy = "part_002" THEN amendOrder(config, req, resp)
    ELSE amendOrderB(config, req, resp)

\* the prices a drag or the order list hands to handleModifyOrder: the
\* empty string, or a price
NewPrices == {<< >>, <<"6">>}

\* a handler of a view ran
Handled(op, order) ==
    [NoStep EXCEPT !.op = op, !.instId = order.instId, !.order = <<order>>]

handlerRest == <<normVars, histVars, chartVars, readVars>>

\* handleCancelOrder(order) of the trade view, with its continuation
TradeCancel(i, copy, resp) ==
    LET order == trade.openOrders[i]
        call == cancelBy(copy, cancelArg(order), resp) IN
    /\ trade.isMounted /\ i \in DOMAIN trade.openOrders
    /\ lastCall' = call
    /\ lastReq' = requestOf(call)
    /\ trade' = IF call.outcome = "Ok"
                THEN [trade EXCEPT !.openOrders = afterCancel(@, order)]
                ELSE trade
    /\ lastStep' = Handled("cancel", order)
    /\ UNCHANGED <<config, handlerRest, chart, sidebar, dash, timers,
                   pending>>

\* handleModifyOrder(order, newPx) of the trade view, with its
\* continuation: fetchData() after the amend
TradeModify(i, newPx, copy, resp) ==
    LET order == trade.openOrders[i]
        call == amendBy(copy, modifyRequest(order, newPx), resp)
        r == Req("fetchData", trade.effect, trade.instId, << >>, << >>) IN
    /\ trade.isMounted /\ i \in DOMAIN trade.openOrders
    /\ InFlight("fetchData") < MaxInFlight
    /\ lastCall' = IF Truthy(newPx) THEN call ELSE NoCall
    /\ lastReq' = IF Truthy(newPx) THEN requestOf(call) ELSE lastReq
    /\ pending' = IF Truthy(newPx) /\ call.outcome = "Ok"
                  THEN fetchData(r, trade.viewMode, trade.isMounted)
                  ELSE pending
    /\ lastStep' = Handled("modify", order)
    /\ UNCHANGED <<config, handlerRest, chart, trade, sidebar, dash, timers>>

\* handleCancelOrder(order) of the dashboard, with its continuation
DashCancel(i, copy, resp) ==
    LET order == dash.expandedOrders[i]
        call == cancelBy(copy, cancelArg(order), resp) IN
    /\ dash.isMounted /\ i \in DOMAIN dash.expandedOrders
    /\ lastCall' = call
    /\ lastReq' = requestOf(call)
    /\ dash' = IF call.outcome = "Ok"
               THEN [dash EXCEPT !.expandedOrders = afterCancel(@, order)]
               ELSE dash
    /\ lastStep' = Handled("cancel", order)
    /\ UNCHANGED <<config, handlerRest, chart, trade, sidebar, timers,
                   pending>>

\* handleModifyOrder(order, newPx) of the dashboard
DashModify(i, newPx, copy, resp) ==
    LET order == dash.expandedOrders[i]
        call == amendBy(copy, modifyRequest(order, newPx), resp) IN
    /\ dash.isMounted /\ i \in DOMAIN dash.expandedOrders
    /\ lastCall' = IF Truthy(newPx) THEN call ELSE NoCall
    /\ lastReq' = IF Truthy(newPx) THEN requestOf(call) ELSE lastReq
    /\ lastStep' = Handled("modify", order)
    /\ UNCHANGED <<config, handlerRest, chart, trade, sidebar, dash, timers,
                   pending>>

----------------------------------------------------------------------------
(* The specifications: one per component, the others at rest *)

GwIdle == config = Complete /\ lastReq = NoRequest /\ lastCall = NoCall /\ ReadIdle /\ ViewIdle

NormIdle ==
    /\ rawAlgo = RawAlgo("a1", ActiveInst, "conditional", <<"9">>,
                         << >>, << >>, << >>)
    /\ legs = NotDecomposed
    /\ subCalls = NoAnswers
    /\ openOrders = NotCalled

HistIdle ==
    /\ now = Epoch /\ stored = << >> /\ lastRecord = NoRecord
    /\ githubToken = FALSE /\ gist = << >> /\ SyncIdle

ChartIdle ==
    /\ seriesData = FALSE
    /\ position = << >>
    /\ chartOrders = << >>
    /\ overlayOrders = << >>
    /\ draggingOrder = << >>
    /\ draggingPosition = FALSE
    /\ dragAlgoType = "none"
    /\ positionY = << >>
    /\ lastEvent = NoEvent
    /\ exAlgos = << >>
    /\ lastPlace = NoPlace

\* the chart overlay, its owner view, and the exchange's algo book
Init ==
    /\ ChartInit /\ lastReq = NoRequest /\ lastCall = NoCall /\ ReadIdle /\ ViewIdle
    /\ NormIdle /\ HistIdle

Spec == Init /\ [][Next]_vars

\* the gateway
InitGateway == GwInit /\ NormIdle /\ HistIdle /\ ChartIdle

SpecGateway == InitGateway /\ [][NextGateway]_vars

\* the owner view's handleAddAlgo, placeOrder and the exchange's algo book
InitAddAlgo ==
    /\ config \in {Complete, NoPassphrase}
    /\ lastReq = NoRequest /\ lastCall = NoCall /\ ReadIdle /\ ViewIdle /\ NormIdle /\ HistIdle
    /\ seriesData = TRUE
    /\ position \in {<<p>> : p \in Positions}
    /\ chartOrders = << >>
    /\ overlayOrders = << >>
    /\ draggingOrder = << >>
    /\ draggingPosition = FALSE
    /\ dragAlgoType = "none"
    /\ positionY = << >>
    /\ lastEvent = NoEvent
    /\ exAlgos = << >>
    /\ lastPlace = NoPlace

NextAddAlgo ==
    \/ \E intent \in CreateIntents : AddAlgo(intent)
    \/ PollOrders
    \/ PositionClosed

SpecAddAlgo == InitAddAlgo /\ [][NextAddAlgo]_vars

\* the decomposition of one raw algo record
InitDecompose ==
    /\ GwIdle /\ HistIdle /\ ChartIdle
    /\ rawAlgo \in RawAlgos
    /\ legs = NotDecomposed
    /\ subCalls = NoAnswers
    /\ openOrders = NotCalled

NextDecompose == Decompose

SpecDecompose == InitDecompose /\ [][NextDecompose]_vars

\* getOpenOrders over the answers of its sub-calls
InitOpenOrders ==
    /\ config \in {Complete, NoPassphrase}
    /\ lastReq = NoRequest /\ lastCall = NoCall /\ ReadIdle /\ ViewIdle /\ HistIdle /\ ChartIdle
    /\ rawAlgo = RawAlgo("a1", ActiveInst, "conditional", <<"9">>,
                         << >>, << >>, << >>)
    /\ legs = NotDecomposed
    /\ subCalls \in AnswerCombos
    /\ openOrders = NotCalled

NextOpenOrders ==
    \E instId \in {<< >>, SpotInst, ActiveInst} : GetOpenOrders(instId)

SpecOpenOrders == InitOpenOrders /\ [][NextOpenOrders]_vars

\* the asset history recorder
InitHistory ==
    /\ HistInit /\ lastReq = NoRequest /\ lastCall = NoCall /\ ReadIdle /\ ViewIdle
    /\ NormIdle /\ ChartIdle

SpecHistory == InitHistory /\ [][NextHistory]_vars

\* answers in which some sub-calls of getOpenOrders fail and one succeeds
SomeAnswers ==
    [NoAnswers EXCEPT !.SPOT.std = Answer(<<RawStd("s1", SpotInst, <<"9">>)>>)]

\* the read-only operations, with and without keys
InitReads ==
    /\ config \in {Complete, NoPassphrase}
    /\ lastReq = NoRequest /\ lastCall = NoCall /\ ReadIdle /\ ViewIdle
    /\ HistIdle /\ ChartIdle
    /\ rawAlgo = RawAlgo("a1", ActiveInst, "conditional", <<"9">>,
                         << >>, << >>, << >>)
    /\ legs = NotDecomposed
    /\ subCalls \in {NoAnswers, SomeAnswers}
    /\ openOrders = NotCalled

NextReads ==
    \/ \E copy \in Copies, type \in {"SPOT", "SWAP"}, got \in Fetches :
          GetInstruments(copy, type, got)
    \/ \E type \in {"SPOT", "SWAP"}, got \in Fetches :
          GetMarketTickers(type, got)
    \/ \E copy \in Copies, got \in Fetches, gotInst \in Fetches :
          GetPositions(copy, got, gotInst)
    \/ \E copy \in Copies, gotSpot \in Fetches, gotSwap \in Fetches :
          GetTradeHistory(copy, gotSpot, gotSwap)
    \/ \E got \in Fetches : GetPositionsHistory(got)
    \/ \E answer \in BalanceAnswers : GetBalances(answer, "ok")
    \/ \E instId \in {<< >>, SpotInst, ActiveInst} : GetOpenOrders(instId)

SpecReads == InitReads /\ [][NextReads]_vars

\* how many points a series handed to the merge has at most
MaxPoints == 2

\* the points of the merged series: the keys "5" and "05" are different
\* keys of the same time
MergePoints == [ts : {<<"5">>, <<"7">>, <<"0", "5">>}, totalEq : {1, 2}]

RECURSIVE SeriesUpTo(_)
SeriesUpTo(n) ==
    IF n = 0 THEN {<< >>}
    ELSE SeriesUpTo(n - 1)
             \cup {Append(h, p) : h \in SeriesUpTo(n - 1), p \in MergePoints}

\* the merge of syncData on a remote and a local series
InitMerge ==
    /\ GwIdle /\ NormIdle /\ ChartIdle
    /\ now = Epoch /\ stored = << >> /\ lastRecord = NoRecord
    /\ githubToken = TRUE /\ gist = << >> /\ syncing = << >>
    /\ mergeIn \in [remote : SeriesUpTo(MaxPoints),
                     local : SeriesUpTo(MaxPoints)]
    /\ merged = NotMerged

NextMerge == Merge \/ MergeAgain

SpecMerge == InitMerge /\ [][NextMerge]_vars

\* the series another device has uploaded: one point, a tick before Epoch
ForeignSeries == <<[ts |-> toString(Epoch - 1), totalEq |-> 30]>>

\* the recorder and the history sync with a GitHub token
\* the recorder with a GitHub token: a young series at Epoch, or a full
\* series the application comes back to MaxElapsed later
InitSync ==
    /\ GwIdle /\ NormIdle /\ ChartIdle
    /\ lastRecord = NoRecord
    /\ githubToken = TRUE
    /\ \/ /\ now = Epoch
          /\ stored \in {Ramp(0), Ramp(1)}
          /\ gist \in {<< >>, <<ForeignSeries>>}
       \/ /\ now = Epoch + MaxElapsed
          /\ stored = Ramp(HistoryCap)
          /\ gist = <<stored>>
    /\ SyncIdle

NextSync ==
    \/ \E d \in 1..(OneHour + 1) : Tick(d)
    \/ \E answer \in BalanceAnswers, outcome \in SyncOutcomes :
          GetBalances(answer, outcome)
    \/ SyncStart
    \/ \E outcome \in SyncOutcomes : SyncFinish(outcome)

SpecSync == InitSync /\ [][NextSync]_vars

\* the recorder with a GitHub token and a young series: every append
\* starts an upload
InitAutoSync ==
    /\ GwIdle /\ NormIdle /\ ChartIdle
    /\ lastRecord = NoRecord
    /\ githubToken = TRUE
    /\ now = Epoch
    /\ stored \in {Ramp(0), Ramp(1)}
    /\ gist \in {<< >>, <<ForeignSeries>>}
    /\ SyncIdle

NextAutoSync ==
    \/ \E d \in 1..(OneHour + 1) : Tick(d)
    \/ \E answer \in BalanceAnswers, outcome \in SyncOutcomes :
          GetBalances(answer, outcome)

SpecAutoSync == InitAutoSync /\ [][NextAutoSync]_vars

\* the time the application is opened again after more than three months
Late == Epoch + 91 * Day

\* a series recorded at long intervals, as seen at the time Late: points
\* before, at and after the cutoff of each period
Spread ==
    [i \in 1..9 |->
        [ts |-> toString(Late - <<91 * Day, 90 * Day, 30 * Day + 1, 30 * Day,
                                  7 * Day + 1, 7 * Day, Day + 1, Day, 1>>[i]),
         totalEq |-> 10 + i]]

\* the history reader: a young series, or a long one looked at much later
InitAssetHistory ==
    /\ GwIdle /\ NormIdle /\ ChartIdle
    /\ lastRecord = NoRecord
    /\ githubToken = FALSE
    /\ gist = << >>
    /\ SyncIdle
    /\ \/ now = Epoch /\ stored \in {Ramp(0), Ramp(1), Ramp(2)}
       \/ now = Late /\ stored \in {Spread, Ramp(HistoryCap)}

NextAssetHistory ==
    \/ \E d \in 1..(OneHour + 1) : Tick(d)
    \/ \E answer \in BalanceAnswers : GetBalances(answer, "ok")
    \/ \E period \in TimePeriods : GetAssetHistory(period)

SpecAssetHistory == InitAssetHistory /\ [][NextAssetHistory]_vars

\* the candle loader
InitCandles ==
    /\ config \in {Complete, NoPassphrase}
    /\ lastReq = NoRequest /\ lastCall = NoCall /\ ReadIdle /\ ViewIdle
    /\ NormIdle /\ HistIdle /\ ChartIdle

NextCandles ==
    \E after \in Afters, book \in SUBSET (1..MaxCandles), got \in Fetches :
        GetCandles(after, book, got)

SpecCandles == InitCandles /\ [][NextCandles]_vars

\* the prices, sizes and contract values calculatePnL is called with
PnLPrices == {90, 100, 110}

PnLSizes == {0 - 2, 1, 2}

PnLContractVals == {<< >>, <<1>>, <<10>>}

\* the profit estimate
InitPnL ==
    /\ GwIdle /\ NormIdle /\ HistIdle /\ ChartIdle

NextPnL ==
    \E entryPrice \in PnLPrices, exitPrice \in PnLPrices, size \in PnLSizes,
       side \in {"long", "short", "net"}, given \in PnLContractVals :
        Calculate(entryPrice, exitPrice, size, side, given)

SpecPnL == InitPnL /\ [][NextPnL]_vars

\* the views: the service is configured, no call has been made yet
InitViews == GwIdle /\ NormIdle /\ HistIdle /\ ChartIdle

\* the chart's effect, its first load and its backfill
NextBackfill ==
    \/ \E instId \in Instruments : RunEffect(instId)
    \/ Cleanup
    \/ \E from \in Froms : RangeChange(from)
    \/ \E r \in BagToSet(pending), book \in Books, got \in CandleFetches :
          \/ LoadInitialResponse(r, book, got)
          \/ BackfillResponse(r, book, got)

SpecBackfill == InitViews /\ [][NextBackfill]_vars

\* the views share no state, so one of them is followed at a time: a
\* view mounts while the others are at rest
ChartAlone == trade = NoTrade /\ sidebar = NoSidebar /\ dash = NoDash

TradeAlone == chart = NoChart /\ sidebar = NoSidebar /\ dash = NoDash

SidebarAlone == chart = NoChart /\ trade = NoTrade /\ dash = NoDash

DashAlone == chart = NoChart /\ trade = NoTrade /\ sidebar = NoSidebar

\* the chart with its two intervals
NextChartPolls ==
    \/ \E instId \in Instruments : ChartAlone /\ RunEffect(instId)
    \/ Cleanup
    \/ \E t \in timers : CandleTick(t) \/ TickerTick(t)
    \/ \E r \in BagToSet(pending), got \in CandleFetches :
          \/ LoadInitialResponse(r, 1..MaxCandles, got)
          \/ CandlePollResponse(r, 1..MaxCandles, got)
    \/ \E r \in BagToSet(pending), got \in TickerFetches :
          TickerResponse(r, got)

\* the trade view with its poll
NextTradePolls ==
    \/ TradeAlone /\ TradeMount
    \/ \E id \in Instruments : handleSelectInstrument(id)
    \/ handleBack
    \/ TradeUnmount
    \/ \E t \in timers : PollTick(t)
    \/ \E r \in BagToSet(pending), got \in TickerFetches,
          book \in OrderBooks, poss \in PositionLists, bals \in BalanceLists :
          FetchDataResponse(r, got, book, poss, bals)

\* the sidebar with its interval
NextSidebarPolls ==
    \/ \E type \in {"SPOT", "SWAP"} : SidebarAlone /\ SidebarEffect(type)
    \/ SidebarUnmount
    \/ \E t \in timers : SidebarTick(t)
    \/ \E r \in BagToSet(pending), got \in CandleFetches :
          SidebarResponse(r, got)

\* the dashboard with its interval
NextDashPolls ==
    \/ \E p \in {<< >>} \cup Instruments : DashAlone /\ DashEffect(p)
    \/ DashUnmount
    \/ \E t \in timers : DashTick(t)
    \/ \E r \in BagToSet(pending), book \in OrderBooks : DashResponse(r, book)

NextPolls ==
    NextChartPolls \/ NextTradePolls \/ NextSidebarPolls \/ NextDashPolls

SpecPolls == InitViews /\ [][NextPolls]_vars

\* the order book with a market order that has no price and a limit order
\* at price 0 on the swap besides the orders of SomeOrders
OddOrders ==
    [SomeOrders EXCEPT
        !.SWAP.std = Answer(<<[RawStd("m1", ActiveInst, <<"9">>)
                                  EXCEPT !.px = << >>],
                              [RawStd("z1", ActiveInst, <<"8">>)
                                  EXCEPT !.px = <<"0">>],
                              RawStd("w1", ActiveInst, <<"7">>)>>)]

\* the lists an owner view hands to the chart as its orders prop: the
\* result of getOpenOrders for the instrument of the chart, or still the
\* one for the instrument shown before
OverlayLists ==
    {getOpenOrders(Complete, instId, book) :
        instId \in Instruments, book \in {NoOrders, SomeOrders, OddOrders}}

\* the owner view sets its order list
SetOrders(list) ==
    /\ chartOrders' = list
    /\ UNCHANGED <<chartRest, config, seriesData, position, overlayOrders,
                   draggingOrder, draggingPosition, dragAlgoType, positionY,
                   lastEvent, exAlgos, lastPlace>>

\* the overlay of the chart: the orders prop changes, frames recompute the
\* overlay, an order handle is grabbed and released
NextOverlay ==
    \/ LoadCandles
    \/ RecreateChart
    \/ Frame
    \/ PositionClosed
    \/ \E list \in OverlayLists : SetOrders(list)
    \/ \E i \in DOMAIN overlayOrders : MouseDownOrder(i)
    \/ \E y \in Ys : MouseUp(y)

SpecOverlay == Init /\ [][NextOverlay]_vars

\* the answers of the exchange to a cancel or an amend: accepted, refused,
\* lost on the wire
HandlerResponses == {r \in Responses : r.status \in {200, 400}}

\* the order lists of the trade view and of the dashboard: polled,
\* cancelled from and modified
NextOrders ==
    \/ TradeAlone /\ TradeMount
    \/ \E id \in Instruments : handleSelectInstrument(id)
    \/ \E r \in BagToSet(pending), got \in TickerFetches,
          book \in OrderBooks :
          FetchDataResponse(r, got, book, << >>, << >>)
    \/ \E p \in {<< >>} \cup Instruments : DashAlone /\ DashEffect(p)
    \/ \E r \in BagToSet(pending), book \in OrderBooks : DashResponse(r, book)
    \/ \E i \in 1..Len(trade.openOrders), copy \in Copies,
          resp \in HandlerResponses :
          \/ TradeCancel(i, copy, resp)
          \/ \E newPx \in NewPrices : TradeModify(i, newPx, copy, resp)
    \/ \E i \in 1..Len(dash.expandedOrders), copy \in Copies,
          resp \in HandlerResponses :
          \/ DashCancel(i, copy, resp)
          \/ \E newPx \in NewPrices : DashModify(i, newPx, copy, resp)

SpecOrders == InitViews /\ [][NextOrders]_vars

\* the orders the views hand to placeOrder
OrderRequests ==
    [instId : {ActiveInst}, tdMode : {"cross"}, side : {"buy"},
     posSide : {NoId, "long"},
     ordType : {"limit", "market", "conditional"},
     px : {Undefined, <<"5">>}, sz : {<<"1">>},
     triggerPx : {Undefined, <<"7">>}]

\* the account client on any configuration
InitPlaceOrder ==
    /\ GwInit /\ NormIdle /\ HistIdle /\ ChartIdle

NextPlaceOrder ==
    \E order \in OrderRequests, resp \in Responses, item \in OrderItems :
        PlaceOrder(order, FALSE, resp, item)

SpecPlaceOrder == InitPlaceOrder /\ [][NextPlaceOrder]_vars

\* the identifiers a view hands to cancelOrder
CancelArgs ==
    [instId : {ActiveInst, << >>}, ordId : {NoId, "o1"},
     algoId : {NoId, "a1"}]

\* the new-value fields a caller provides: none, one, two or all
ProvidedSets ==
    {P \in SUBSET AmendFields : Cardinality(P) <= 1}
        \cup {{"newSz", "newPx"}, {"newPx", "newTriggerPx"}, AmendFields}

\* an AmendOrderRequest with these identifiers that provides the fields P
amendRequest(ids, P) ==
    [f \in AmendFields \cup {"instId", "ordId", "algoId"} |->
        IF f \in {"instId", "ordId", "algoId"} THEN ids[f]
        ELSE IF f \in P THEN <<"5">> ELSE Undefined]

\* every choice of fields for an instrument, one for a missing instrument,
\* and a request whose new size is the empty string
AmendRequests ==
    {amendRequest(ids, P) :
        ids \in {a \in CancelArgs : a.instId # << >>}, P \in ProvidedSets}
    \cup {amendRequest(ids, {"newSz"}) : ids \in CancelArgs}
    \cup {[amendRequest(ids, {"newPx"}) EXCEPT !.newSz = << >>] :
             ids \in {a \in CancelArgs : a.instId # << >>}}

LeverageArgs == {[instId |-> ActiveInst, lever |-> <<"3">>, mgnMode |-> "cross"]}

\* a response of each kind
FewResponses == {r \in Responses : r.status \in {200, 400} \/ r.kind = "rejected"}

MarketOrder ==
    [instId |-> ActiveInst, tdMode |-> "cross", side |-> "buy",
     posSide |-> NoId, ordType |-> "market", px |-> Undefined,
     sz |-> <<"1">>, triggerPx |-> Undefined]

\* the mutation paths of the account client, with and without keys
InitMutations ==
    /\ config \in {Complete, NoPassphrase}
    /\ lastReq = NoRequest /\ lastCall = NoCall /\ ReadIdle /\ ViewIdle
    /\ NormIdle /\ HistIdle /\ ChartIdle

NextMutations ==
    \/ \E copy \in Copies, arg \in CancelArgs, resp \in Responses :
          CancelOrder(copy, arg, resp)
    \/ \E copy \in Copies, req \in AmendRequests, resp \in FewResponses :
          AmendOrder(copy, req, resp)
    \/ \E copy \in Copies, arg \in LeverageArgs, resp \in Responses :
          SetLeverage(copy, arg, resp)
    \/ \E resp \in Responses :
          PlaceOrder(MarketOrder, FALSE, resp, NoItem)

SpecMutations == InitMutations /\ [][NextMutations]_vars

----------------------------------------------------------------------------
(* The properties of the gateway and of the order normaliser *)

\* a credential field that is empty or was never set
EmptyField(v) == v = << >> \/ v = Undefined

SomeFieldEmpty(c) ==
    EmptyField(c.apiKey) \/ EmptyField(c.secretKey) \/ EmptyField(c.passphrase)

\* the path holds neither '/public/' nor '/market/'
PrivatePath(path) ==
    \A i \in 1..(Len(path) - 1) : path[i] # "public" /\ path[i] # "market"

\* C1: a request whose path holds neither '/public/' nor '/market/', made
\* while any of the three credential fields is empty, fails with
\* AuthMissing and makes no network call
C1_AuthMissing ==
    (lastReq.method # "none" /\ SomeFieldEmpty(lastReq.config)
        /\ PrivatePath(lastReq.path))
    => (lastReq.outcome = "AuthMissing" /\ lastReq.fetches = 0)

\* a private request was refused although two of the three fields are set
C1_Witness ==
    /\ lastReq.method # "none"
    /\ PrivatePath(lastReq.path)
    /\ lastReq.config = NoPassphrase
    /\ lastReq.outcome = "AuthMissing"
    /\ lastReq.fetches = 0

\* the four authentication headers
FourHeaders == {"OK-ACCESS-KEY", "OK-ACCESS-SIGN", "OK-ACCESS-TIMESTAMP",
                "OK-ACCESS-PASSPHRASE"}

\* C14: a request carries all four authentication headers (access key,
\* signature, timestamp, passphrase) exactly when all three credentials
\* are non-empty, on public paths as well as private ones; with any
\* credential empty a public-path request is sent with none of the four
\* headers and the signer is not invoked
C14_AuthHeaders ==
    lastReq.method # "none" =>
        /\ ~SomeFieldEmpty(lastReq.config)
               => /\ lastReq.fetches = 1
                  /\ lastReq.headers.sent = FourHeaders
                  /\ lastReq.signerCalls = 1
        /\ SomeFieldEmpty(lastReq.config)
               => /\ lastReq.headers.sent = {}
                  /\ lastReq.signerCalls = 0
                  /\ ~PrivatePath(lastReq.path) => lastReq.fetches = 1

\* a request on a public path was sent with the four headers
C14_Witness ==
    /\ lastReq.method # "none"
    /\ ~PrivatePath(lastReq.path)
    /\ lastReq.config = Complete
    /\ lastReq.fetches = 1
    /\ lastReq.headers.sent = FourHeaders
    /\ lastReq.headers.sign = "tag"

\* C15: no request reaches the network with a signature header whose
\* value is the empty string: when the signer returns the empty string
\* the request is sent unsigned
C15_NoEmptySignature ==
    lastReq.fetches = 1 =>
        ~("OK-ACCESS-SIGN" \in lastReq.headers.sent
              /\ lastReq.headers.sign = "")

\* C16: a response with status 429 fails with RateLimited, never with
\* ApiError; any other non-2xx response fails with ApiError, carrying the
\* envelope's code and msg when the body is JSON with a msg and the HTTP
\* status text when the body is not parseable JSON; a transport-level
\* failure fails with NetworkError; no HTTP-status failure is reported as
\* NetworkError
C16_ErrorClassification ==
    lastReq.fetches = 1 =>
        /\ (lastReq.resp.kind = "http" /\ lastReq.resp.status = 429)
               => lastReq.outcome = "RateLimited"
        /\ (lastReq.resp.kind = "http" /\ lastReq.resp.status # 429)
               => /\ lastReq.outcome = "ApiError"
                  /\ lastReq.resp.json = "envelope"
                         => lastReq.detail = "code: msg"
                  /\ lastReq.resp.json = "unparseable"
                         => lastReq.detail = "statusText"
        /\ lastReq.resp.kind \in {"rejected", "rejectedOther"}
               => lastReq.outcome = "NetworkError"
        /\ lastReq.resp.kind = "http" => lastReq.outcome # "NetworkError"

\* the outcomes of a request that failed after it reached the network
FailedOnTheWire == {"RateLimited", "ApiError", "NetworkError", "Rethrown"}

Ordered == lastCall.order[1]

Posted == lastCall.body[1]

\* C19: placeOrder sends an order of type 'conditional' to the algo-order
\* endpoint and every other order to the standard order endpoint; the
\* payload of a non-conditional order has a price only when ordType is not
\* 'market'; the payload has posSide iff the caller supplied one
C19_RoutingAndPayload ==
    (lastCall.op = "placeOrder" /\ lastCall.fetches = 1) =>
        /\ lastReq.method = "POST" /\ lastReq.path = lastCall.endpoint
        /\ lastCall.endpoint =
               IF Ordered.ordType = "conditional"
               THEN <<"api", "v5", "trade", "order-algo">>
               ELSE <<"api", "v5", "trade", "order">>
        /\ Ordered.ordType # "conditional"
               => /\ Posted.px # Undefined => Ordered.ordType # "market"
                  /\ Posted.px # Undefined => Posted.px = Ordered.px
                  /\ (Ordered.ordType # "market" /\ Ordered.px # Undefined)
                         => Posted.px = Ordered.px
        /\ Posted.posSide # NoId <=> Ordered.posSide # NoId
        /\ Posted.posSide = Ordered.posSide
        /\ Posted.ordType = Ordered.ordType

\* a market order given with a price and a position side has been posted
\* to the standard endpoint without the price and with the position side
C19_Witness ==
    /\ lastCall.op = "placeOrder" /\ lastCall.fetches = 1
    /\ Ordered.ordType = "market"
    /\ Ordered.px # Undefined
    /\ Ordered.posSide = "long"
    /\ Posted.px = Undefined
    /\ Posted.posSide = "long"
    /\ lastCall.endpoint = <<"api", "v5", "trade", "order">>

\* C20: without complete credentials placeOrder fails with AuthMissing and
\* issues no network call; a 200 response whose first item has a status
\* code other than '0' makes it throw OrderRejected with that item's
\* message; it returns an id (the order id, or the algo id) only when the
\* first item's status code is '0'
C20_PlaceOrderOutcomes ==
    lastCall.op = "placeOrder" =>
        /\ SomeFieldEmpty(lastCall.config)
               => /\ lastCall.outcome = "AuthMissing"
                  /\ lastCall.fetches = 0
                  /\ lastCall.result = "none"
        /\ (lastCall.resp.kind = "ok" /\ lastCall.item # NoItem
                /\ lastCall.item[1].sCode # "0")
               => /\ lastCall.outcome = "OrderRejected"
                  /\ lastCall.result = "none"
                  /\ lastCall.item[1].sMsg # ""
                         => lastCall.detail = lastCall.item[1].sMsg
        /\ lastCall.result # "none"
               => /\ lastCall.resp.kind = "ok" /\ lastCall.item # NoItem
                  /\ lastCall.item[1].sCode = "0"
                  /\ lastCall.outcome = "Ok"
                  /\ lastCall.result \in {lastCall.item[1].ordId,
                                          lastCall.item[1].algoId}
        /\ (lastCall.resp.kind = "ok" /\ lastCall.item # NoItem
                /\ lastCall.item[1].sCode = "0")
               => lastCall.outcome = "Ok" /\ lastCall.result # "none"

\* an order was refused in a 200 response and placeOrder has thrown the
\* item's message
C20_Witness ==
    /\ lastCall.op = "placeOrder"
    /\ lastCall.resp.kind = "ok"
    /\ lastCall.item # NoItem
    /\ lastCall.item[1].sCode = "51008"
    /\ lastCall.outcome = "OrderRejected"
    /\ lastCall.detail = "Insufficient balance"
    /\ lastCall.fetches = 1

\* a trigger field of a raw algo record that is present: set, not empty,
\* and not the exchange's "-1" for no price
Present(px) == px # Undefined /\ px # << >> /\ px # <<"-", "1">>

\* the legs of legs.out that have the identifier id
WithId(id) == {i \in 1..Len(legs.out) : legs.out[i].ordId = id}

\* C2: a raw algo record becomes a primary leg with the id algoId iff its
\* triggerPx is present, an 'sl' leg with the id algoId-sl iff its
\* slTriggerPx is present, a 'tp' leg with the id algoId-tp iff its
\* tpTriggerPx is present, and nothing else; the ids of the legs differ
C2_Decomposition ==
    legs.done =>
        LET id == rawAlgo.algoId
            out == legs.out
            count(px) == IF Present(px) THEN 1 ELSE 0 IN
        /\ Cardinality(WithId(id)) = count(rawAlgo.triggerPx)
        /\ Cardinality(WithId(id \o "-sl")) = count(rawAlgo.slTriggerPx)
        /\ Cardinality(WithId(id \o "-tp")) = count(rawAlgo.tpTriggerPx)
        /\ Len(out) = count(rawAlgo.triggerPx) + count(rawAlgo.slTriggerPx)
                          + count(rawAlgo.tpTriggerPx)
        /\ \A i \in WithId(id) :
               out[i].triggerPx = rawAlgo.triggerPx
                   /\ out[i].ordType = rawAlgo.ordType
        /\ \A i \in WithId(id \o "-sl") :
               out[i].triggerPx = rawAlgo.slTriggerPx /\ out[i].ordType = "sl"
        /\ \A i \in WithId(id \o "-tp") :
               out[i].triggerPx = rawAlgo.tpTriggerPx /\ out[i].ordType = "tp"
        /\ \A i, j \in 1..Len(out) : out[i].ordId = out[j].ordId => i = j
        /\ \A i \in 1..Len(out) : out[i].algoId = id

\* a record with all three fields present has become three legs
C2_Witness ==
    /\ legs.done
    /\ Present(rawAlgo.triggerPx)
    /\ Present(rawAlgo.slTriggerPx)
    /\ Present(rawAlgo.tpTriggerPx)
    /\ Len(legs.out) = 3
    /\ {legs.out[i].ordId : i \in 1..3}
           = {rawAlgo.algoId, rawAlgo.algoId \o "-sl", rawAlgo.algoId \o "-tp"}

\* the creation time of the i-th order of the list getOpenOrders returned
CTimeAt(i) == parseInt(openOrders.out[i].cTime)

\* C3, as the specification states it: the returned list is sorted so that
\* every element's creation time is strictly greater than that of the
\* element after it
C3_StrictlyDescending ==
    openOrders.called =>
        \A i \in 1..(Len(openOrders.out) - 1) : CTimeAt(i) > CTimeAt(i + 1)

\* C3, amended: every element's creation time is greater than or equal to
\* that of the element after it, and the list holds exactly the orders the
\* sub-calls that succeeded produced
C3_Descending ==
    openOrders.called =>
        /\ \A i \in 1..(Len(openOrders.out) - 1) : CTimeAt(i) >= CTimeAt(i + 1)
        /\ LET all == AllOrders(InstTypes(openOrders.instId), subCalls) IN
           IF hasKeys(config)
           THEN /\ Len(openOrders.out) = Len(all)
                /\ {openOrders.out[i] : i \in 1..Len(openOrders.out)}
                       = {all[i] : i \in 1..Len(all)}
           ELSE openOrders.out = << >>

\* a sorted list in which the two legs of one algo record are neighbours
\* with the same creation time, and an older order follows
C3_Witness ==
    /\ openOrders.called
    /\ Len(openOrders.out) >= 3
    /\ \E i \in 1..(Len(openOrders.out) - 1) :
           /\ openOrders.out[i].algoId # NoId
           /\ openOrders.out[i].algoId = openOrders.out[i + 1].algoId
           /\ CTimeAt(i) = CTimeAt(i + 1)
    /\ \E i \in 1..(Len(openOrders.out) - 1) : CTimeAt(i) > CTimeAt(i + 1)
    /\ AllOrders(InstTypes(openOrders.instId), subCalls) # openOrders.out

\* the sub-calls of one getOpenOrders call with keys: four per type
SubCallsDue ==
    {<<t, k>> : t \in {InstTypes(openOrders.instId)[i] :
                          i \in DOMAIN InstTypes(openOrders.instId)},
                k \in {"std", "conditional", "oco", "trigger"}}

\* what a sub-call contributes: its orders if it succeeded, else nothing
Contribution(call) ==
    LET res == subCalls[call[1]][call[2]] IN
    IF ~res.ok THEN << >>
    ELSE IF call[2] = "std" THEN fetchStandard(res) ELSE fetchAlgo(res)

RECURSIVE ConcatOf(_)
ConcatOf(calls) ==
    IF calls = << >> THEN << >>
    ELSE Contribution(Head(calls)) \o ConcatOf(Tail(calls))

\* the place of an order in a list without repeated order ids
PlaceIn(list, o) == CHOOSE i \in DOMAIN list : list[i] = o

\* C18: for every subset of failing sub-calls (one standard-pending call
\* and three algo-pending calls, conditional, oco and trigger, per
\* instrument type) getOpenOrders returns exactly the concatenation of the
\* results of the sub-calls that succeeded, sorted by creation time; a
\* failing sub-call contributes an empty list and the sub-calls after it
\* are issued all the same
C18_FaultTolerance ==
    (openOrders.called /\ hasKeys(config)) =>
        LET out == openOrders.out
            all == ConcatOf(openOrders.issued) IN
        /\ Len(openOrders.issued) = Cardinality(SubCallsDue)
        /\ {openOrders.issued[i] : i \in DOMAIN openOrders.issued}
               = SubCallsDue
        /\ Len(out) = Len(all)
        /\ {out[i] : i \in DOMAIN out} = {all[i] : i \in DOMAIN all}
        /\ \A i \in 1..(Len(out) - 1) :
               \/ CTimeAt(i) > CTimeAt(i + 1)
               \/ /\ CTimeAt(i) = CTimeAt(i + 1)
                  /\ PlaceIn(all, out[i]) < PlaceIn(all, out[i + 1])
        /\ \A call \in SubCallsDue :
               \A i \in DOMAIN Contribution(call) :
                   \E j \in DOMAIN out : out[j] = Contribution(call)[i]

\* the standard sub-call of the SPOT pass failed, the algo sub-calls after
\* it and the SWAP pass were made and their orders are in the result
C18_Witness ==
    /\ openOrders.called /\ hasKeys(config)
    /\ openOrders.instId = << >>
    /\ ~subCalls.SPOT.std.ok
    /\ ~subCalls.SPOT.oco.ok
    /\ subCalls.SPOT.conditional.ok
    /\ subCalls.SWAP.std.ok
    /\ Len(openOrders.issued) = 8
    /\ \E i, j \in DOMAIN openOrders.out :
           /\ openOrders.out[i].ordId = "c1-sl"
           /\ openOrders.out[j].ordId = "w1"

----------------------------------------------------------------------------
(* The properties of the asset history recorder *)

\* the timestamp of the i-th point of a series
TsAt(series, i) == parseInt(series[i].ts)

\* the series is empty or its most recent point is more than one hour
\* older than t
Due(series, t) ==
    series = << >> \/ t - TsAt(series, Len(series)) > OneHour

\* consecutive points are more than one hour apart, hence strictly
\* increasing in timestamp
GapsOverOneHour(series) ==
    \A i \in 1..(Len(series) - 1) :
        TsAt(series, i + 1) - TsAt(series, i) > OneHour

Ascending(series) ==
    \A i \in 1..(Len(series) - 1) : TsAt(series, i) < TsAt(series, i + 1)

\* a step that is a getBalances call
BalancesCalled == lastRecord'.flip # lastRecord.flip

\* the point a getBalances call at the current time records
PointNow == [ts |-> toString(now), totalEq |-> lastRecord'.totalEq]

\* C9: a getBalances call that yields a non-empty balance list appends the
\* point {ts = now, totalEq} iff the persisted series is empty or its most
\* recent point is more than one hour older than now, and otherwise leaves
\* the series alone; of two such calls within one hour on a series that
\* was empty exactly one point is stored; consecutive points of the series
\* are always more than one hour apart and strictly increasing
C9_AppendRule ==
    /\ []GapsOverOneHour(stored)
    /\ [][BalancesCalled =>
            /\ (lastRecord'.nonEmpty /\ Due(stored, now))
                   => /\ stored' # << >>
                      /\ stored'[Len(stored')] = PointNow
                      /\ \E k \in {0, 1} :
                             SubSeq(stored', 1, Len(stored') - 1)
                                 = SubSeq(stored, 1 + k, Len(stored))
            /\ ~(lastRecord'.nonEmpty /\ Due(stored, now))
                   => stored' = stored
            /\ (lastRecord.called /\ lastRecord.nonEmpty
                    /\ lastRecord.wasEmpty /\ lastRecord'.nonEmpty
                    /\ now - lastRecord.at <= OneHour)
                   => Len(stored') = 1
       ]_vars

\* a call with a non-empty balance list stored nothing, because the one
\* point of the series is younger than an hour
C9_Witness ==
    /\ lastRecord.called
    /\ lastRecord.nonEmpty
    /\ ~lastRecord.pushed
    /\ Len(stored) = 1
    /\ lastRecord.at > TsAt(stored, 1)
    /\ lastRecord.at - TsAt(stored, 1) <= OneHour

\* C10: an append that makes the series longer than 1000 points evicts
\* points from the front until exactly 1000 remain: the 1001st point
\* removes exactly the oldest point and the remaining 1000 are in
\* ascending timestamp order; a shorter series loses nothing
C10_Cap ==
    [][(BalancesCalled /\ lastRecord'.pushed) =>
          LET grown == Append(stored, PointNow)
              kept == IF Len(grown) > HistoryCap
                      THEN HistoryCap ELSE Len(grown) IN
          /\ Len(stored') = kept
          /\ \A i \in 1..kept : stored'[i] = grown[Len(grown) - kept + i]
          /\ Len(stored) = HistoryCap
                 => stored' = Tail(stored) \o <<PointNow>>
          /\ Ascending(stored')
      ]_vars

\* the 1001st point has been appended and the oldest point is gone
C10_Witness ==
    /\ lastRecord.pushed
    /\ lastRecord.evicted = 1
    /\ Len(stored) = HistoryCap
    /\ TsAt(stored, HistoryCap) = lastRecord.at
    /\ TsAt(stored, 1) = Epoch - (HistoryCap - 2) * (OneHour + 1)

\* C11: after any interleaving of recorder appends and history syncs
\* (syncHistoryWithGitHub writing the merged series back to local storage)
\* the persisted series has at most 1000 points, strictly increasing
\* timestamps, and consecutive points more than one hour apart
C11_SeriesBounded ==
    /\ Len(stored) <= HistoryCap
    /\ Ascending(stored)
    /\ GapsOverOneHour(stored)

\* the timestamp keys of a series
Keys(series) == {series[i].ts : i \in DOMAIN series}

\* the point Map.set leaves under a key of the series: the last one
LastWith(series, key) ==
    series[CHOOSE i \in DOMAIN series :
               /\ series[i].ts = key
               /\ \A k \in (i + 1)..Len(series) : series[k].ts # key]

\* no point of the series is earlier than the one before it
SortedAscending(series) ==
    \A i \in 1..(Len(series) - 1) : TsAt(series, i) <= TsAt(series, i + 1)

OnePerKey(series) ==
    \A i, j \in DOMAIN series : series[i].ts = series[j].ts => i = j

\* C12: the merge is idempotent: merging a series S with itself returns
\* the points of S sorted ascending by timestamp, one point per timestamp
\* key (the last S has for the key), and merging that result with itself
\* returns it unchanged
C12_MergeIdempotent ==
    (merged.done /\ mergeIn.remote = mergeIn.local) =>
        /\ SortedAscending(merged.out)
        /\ OnePerKey(merged.out)
        /\ Keys(merged.out) = Keys(mergeIn.local)
        /\ \A i \in DOMAIN merged.out :
               merged.out[i] = LastWith(mergeIn.local, merged.out[i].ts)
        /\ merged.again => merged.out = mergeIn.local

\* a series of two points in descending order has been merged with itself
\* and has come out in ascending order
C12_Witness ==
    /\ merged.done /\ ~merged.again
    /\ mergeIn.remote = mergeIn.local
    /\ Len(mergeIn.local) = 2
    /\ TsAt(mergeIn.local, 1) > TsAt(mergeIn.local, 2)
    /\ merged.out = <<mergeIn.local[2], mergeIn.local[1]>>

\* C13: for every remote series R and local series L the merged series
\* has exactly one point for each timestamp key occurring in R or L, the
\* local point when both have the key, and is sorted ascending by
\* timestamp
C13_MergeResult ==
    merged.done =>
        /\ Keys(merged.out) = Keys(mergeIn.remote) \cup Keys(mergeIn.local)
        /\ OnePerKey(merged.out)
        /\ \A i \in DOMAIN merged.out :
               merged.out[i] =
                   IF merged.out[i].ts \in Keys(mergeIn.local)
                   THEN LastWith(mergeIn.local, merged.out[i].ts)
                   ELSE LastWith(mergeIn.remote, merged.out[i].ts)
        /\ SortedAscending(merged.out)

\* the two series have a key in common with different points, and a key
\* each of their own; the merge holds the local point of the common key
C13_Witness ==
    /\ merged.done /\ ~merged.again
    /\ Len(merged.out) = 3
    /\ \E i \in DOMAIN mergeIn.remote, j \in DOMAIN mergeIn.local :
           /\ mergeIn.remote[i].ts = mergeIn.local[j].ts
           /\ mergeIn.remote[i] # mergeIn.local[j]
           /\ \E k \in DOMAIN merged.out : merged.out[k] = mergeIn.local[j]
           /\ \A k \in DOMAIN merged.out : merged.out[k] # mergeIn.remote[i]

----------------------------------------------------------------------------
(* The properties of the chart's drag gestures *)

\* the gesture states: an order drag takes precedence in every handler
Idle == draggingOrder = << >> /\ ~draggingPosition

OrderDragging == draggingOrder # << >>

PositionDragging == draggingPosition /\ draggingOrder = << >>

\* the cursor position y converts to a price that is neither null nor 0
ValidPrice(y) == TruthyNum(coordinateToPrice(seriesData, y))

PriceAt(y) == coordinateToPrice(seriesData, y)[1]

\* the entry price of the open position
Entry == parseInt(position[1].avgPx)

\* C4: every mouseup received in PositionDragging returns the gesture to
\* Idle, whether or not a mousemove classified the drag before; after
\* that mouseup, a mousemove or pointer-leave with no new mousedown emits
\* no create-order intent
C4_MouseUpEndsPositionDrag ==
    [][/\ (PositionDragging /\ \E y \in Ys : MouseUp(y)) => Idle'
       /\ (lastEvent.released
              /\ \E y \in Ys : MouseMove(y) \/ MouseLeave(y))
            => lastEvent'.intent.kind # "create"
      ]_vars

\* C6, as the specification states it: in PositionDragging a candidate
\* price below entry is 'tp' and above entry 'sl' for a short position,
\* and above entry 'tp' and below entry 'sl' for a long position and for
\* every net position
C6_NetAsLong ==
    [][\A y \in Ys :
          (MouseMove(y) /\ PositionDragging /\ positionY # << >>
              /\ position # << >> /\ ValidPrice(y))
          => LET side == position[1].posSide IN
             /\ (side = "short" /\ PriceAt(y) < Entry) => dragAlgoType' = "tp"
             /\ (side = "short" /\ PriceAt(y) > Entry) => dragAlgoType' = "sl"
             /\ (side # "short" /\ PriceAt(y) > Entry) => dragAlgoType' = "tp"
             /\ (side # "short" /\ PriceAt(y) < Entry) => dragAlgoType' = "sl"
      ]_vars

\* the position is short, or net with a negative size
SellsShort(p) ==
    p.posSide = "short" \/ (p.posSide = "net" /\ Head(p.pos) = "-")

\* C6, amended: a net position of negative size is classified as a short
\* position is, a net position of positive size as a long position is
C6_Classification ==
    [][\A y \in Ys :
          (MouseMove(y) /\ PositionDragging /\ positionY # << >>
              /\ position # << >> /\ ValidPrice(y))
          => LET short == SellsShort(position[1]) IN
             /\ (short /\ PriceAt(y) < Entry) => dragAlgoType' = "tp"
             /\ (short /\ PriceAt(y) > Entry) => dragAlgoType' = "sl"
             /\ (~short /\ PriceAt(y) > Entry) => dragAlgoType' = "tp"
             /\ (~short /\ PriceAt(y) < Entry) => dragAlgoType' = "sl"
      ]_vars

\* a mousemove has classified the drag of a net position of negative size
\* as a take-profit
C6_Witness ==
    /\ PositionDragging
    /\ lastEvent.type = "mousemove"
    /\ position # << >>
    /\ position[1].posSide = "net"
    /\ position[1].pos = <<"-", "2">>
    /\ dragAlgoType = "tp"

\* C7: a mouseup received in OrderDragging returns the gesture to Idle; it
\* emits one modify-intent, for the dragged order and with the price
\* converted from the cursor position, when that price is valid, and no
\* intent when it is not
C7_MouseUpEndsOrderDrag ==
    [][\A y \in Ys :
          (OrderDragging /\ MouseUp(y))
          => /\ Idle'
             /\ lastEvent'.intent =
                    IF ValidPrice(y)
                    THEN ModifyIntent(draggingOrder[1], toString(PriceAt(y)))
                    ELSE NoIntent
      ]_vars

\* a step that ends an order drag or a position drag
DragEnded ==
    \/ draggingOrder # << >> /\ draggingOrder' = << >>
    \/ draggingPosition /\ ~draggingPosition'

\* a pointer-leave at y leaves the gesture state and emits the intent that
\* a mouseup at y does, from every gesture state
LeaveIsMouseUp ==
    \A y \in Ys :
        MouseLeave(y) => /\ Gesture' = handleMouseUp(y).g
                         /\ lastEvent'.intent = handleMouseUp(y).intent

\* C8, as the specification states it: a pointer-leave has exactly the
\* effect of a mouseup at the same cursor position, and no event ends a
\* drag without committing it
C8_LeaveIsMouseUpNoCancel ==
    [][/\ LeaveIsMouseUp
       /\ DragEnded => lastEvent'.intent.kind # "none"
      ]_vars

\* C8, amended: a pointer-leave has exactly the effect of a mouseup at the
\* same cursor position; only a mouseup or a pointer-leave ends a drag, and
\* it commits the drag when the cursor position converts to a valid price
\* and ends it without an intent when it does not
C8_LeaveIsMouseUp ==
    [][/\ LeaveIsMouseUp
       /\ DragEnded
            => \E y \in Ys :
                  /\ MouseUp(y) \/ MouseLeave(y)
                  /\ ValidPrice(y) => lastEvent'.intent.kind # "none"
                  /\ ~ValidPrice(y) => lastEvent'.intent = NoIntent
      ]_vars

\* a pointer-leave has ended a drag and committed it
C8_Witness ==
    /\ lastEvent.type = "mouseleave"
    /\ lastEvent.intent.kind \in {"modify", "create"}
    /\ Idle

\* C5: the conditional order submitted when a position drag commits
\* carries the kind that was classified: a 'tp' commit is submitted with a
\* take-profit trigger price, an 'sl' commit with a stop-loss trigger
\* price, and the accepted order comes back from getOpenOrders as an order
\* of that kind
C5_KindEncoded ==
    lastPlace.called =>
        LET body == lastPlace.payload[1] IN
        /\ lastPlace.kind = "tp"
               => /\ body.tpTriggerPx = lastPlace.price
                  /\ ~Present(body.slTriggerPx)
        /\ lastPlace.kind = "sl"
               => /\ body.slTriggerPx = lastPlace.price
                  /\ ~Present(body.tpTriggerPx)
        /\ lastPlace.accepted
               => \E i \in 1..Len(chartOrders) :
                      /\ chartOrders[i].ordType = lastPlace.kind
                      /\ chartOrders[i].triggerPx = lastPlace.price

\* the endpoints of the two routes of an operation
AlgoEndpoint(op) ==
    IF op = "cancelOrder" THEN <<"api", "v5", "trade", "cancel-algos">>
    ELSE <<"api", "v5", "trade", "amend-algos">>

StandardEndpoint(op) ==
    IF op = "cancelOrder" THEN <<"api", "v5", "trade", "cancel-order">>
    ELSE <<"api", "v5", "trade", "amend-order">>

\* the last call is a cancelOrder or an amendOrder with these identifiers
\* given
Routed(arg) ==
    /\ lastCall.op \in {"cancelOrder", "amendOrder"}
    /\ arg = lastCall.order[1]

\* C21: with credentials and an instrument, cancelOrder and amendOrder
\* given an algo identifier (an order identifier beside it or not) post
\* to the algo endpoint a one-element array whose element is keyed by the
\* algo identifier; given an order identifier and no algo identifier they
\* post to the standard endpoint an object keyed by the order identifier
C21_Routing ==
    \A arg \in CancelArgs \cup AmendRequests :
        Routed(arg) /\ hasKeys(lastCall.config) /\ Truthy(arg.instId)
        => /\ TruthyId(arg.algoId)
              => /\ lastCall.fetches = 1
                 /\ lastCall.endpoint = AlgoEndpoint(lastCall.op)
                 /\ lastCall.body[1].array
                 /\ lastCall.body[1].item.algoId = arg.algoId
                 /\ lastCall.body[1].item.ordId = NoId
                 /\ lastCall.body[1].item.instId = arg.instId
           /\ ~TruthyId(arg.algoId) /\ TruthyId(arg.ordId)
              => /\ lastCall.fetches = 1
                 /\ lastCall.endpoint = StandardEndpoint(lastCall.op)
                 /\ ~lastCall.body[1].array
                 /\ lastCall.body[1].item.ordId = arg.ordId
                 /\ lastCall.body[1].item.algoId = NoId
                 /\ lastCall.body[1].item.instId = arg.instId

\* a cancelOrder given both identifiers has posted to the algo endpoint
C21_Witness ==
    /\ lastCall.op = "cancelOrder"
    /\ lastCall.fetches = 1
    /\ TruthyId(lastCall.order[1].algoId)
    /\ TruthyId(lastCall.order[1].ordId)
    /\ lastCall.endpoint = <<"api", "v5", "trade", "cancel-algos">>
    /\ lastCall.body[1].array

\* C22: a cancelOrder or an amendOrder given neither an order identifier
\* nor an algo identifier fails with MissingOrderId and makes no request
C22_MissingOrderId ==
    \A arg \in CancelArgs \cup AmendRequests :
        Routed(arg) /\ ~TruthyId(arg.algoId) /\ ~TruthyId(arg.ordId)
        => /\ lastCall.outcome = "MissingOrderId"
           /\ lastCall.fetches = 0

\* the new-value fields of the route a request takes
RouteFields(req) ==
    IF TruthyId(req.algoId) THEN AlgoAmendFields ELSE StdAmendFields

\* the identifier of the route a request takes
RouteId(req) == IF TruthyId(req.algoId) THEN "algoId" ELSE "ordId"

\* C23: the body of an amend request carries the instrument, the
\* identifier of its route and, of the new-value fields of that route,
\* exactly those the caller provided (as a non-empty string), each with
\* the value given; every other new-value field is absent from the body
C23_SparsePatch ==
    \A req \in AmendRequests :
        Routed(req) /\ lastCall.op = "amendOrder" /\ lastCall.fetches = 1
        => LET item == lastCall.body[1].item IN
           /\ item.instId = req.instId
           /\ item[RouteId(req)] = req[RouteId(req)]
           /\ \A f \in AmendFields :
                  IF f \in RouteFields(req) /\ Truthy(req[f])
                  THEN item[f] = req[f]
                  ELSE item[f] = Undefined

\* an amend of a standard order has sent a new price and no new size
C23_Witness ==
    /\ lastCall.op = "amendOrder"
    /\ lastCall.fetches = 1
    /\ lastCall.order[1].newSz = Undefined
    /\ lastCall.order[1].newPx = <<"5">>
    /\ lastCall.body[1].item.newPx = <<"5">>
    /\ lastCall.body[1].item.newSz = Undefined

\* the operations that change something at the exchange
MutationOps == {"placeOrder", "cancelOrder", "amendOrder", "setLeverage"}

\* C24: when the request of placeOrder, cancelOrder, amendOrder or
\* setLeverage fails, the call fails with the error of the request after
\* that single attempt: the error is neither swallowed nor retried
C24_MutationsPropagate ==
    lastCall.op \in MutationOps /\ lastCall.fetches > 0
        /\ lastCall.resp.kind # "ok"
    => /\ lastCall.outcome = Classify(lastCall.resp)
       /\ lastCall.outcome \in FailedOnTheWire
       /\ lastCall.fetches = 1

\* the read-only aggregation operations
ReadOps == {"getBalances", "getPositions", "getMarketTickers",
            "getOpenOrders", "getTradeHistory", "getPositionsHistory"}

\* C25: balances, positions, tickers, open orders, trade history and
\* position history never throw, whatever their requests do (AuthMissing,
\* NetworkError, RateLimited, ApiError, a payload of the wrong shape): each
\* returns a list, and balances and positions return the empty list
\* without a network call when the credentials are incomplete
C25_ReadsNeverThrow ==
    lastRead.op \in ReadOps
    => /\ ~lastRead.threw
       /\ DOMAIN lastRead.out = 1..Len(lastRead.out)
       /\ lastRead.op \in {"getBalances", "getPositions"} /\ ~hasKeys(config)
          => lastRead.out = << >> /\ lastRead.fetches = 0

\* getPositions has returned the empty list after its request failed
C25_Witness ==
    /\ lastRead.op = "getPositions"
    /\ lastRead.fetches = 2
    /\ lastRead.failed
    /\ ~lastRead.threw
    /\ lastRead.out = << >>

\* C26: for each type in {SPOT, SWAP}, when the instruments request fails
\* (or its answer cannot be mapped) getInstruments(type) returns a
\* non-empty fallback list whose elements are all of that type
C26_InstrumentFallback ==
    lastRead.op = "getInstruments" /\ lastRead.failed
    => /\ lastRead.out # << >>
       /\ \A i \in DOMAIN lastRead.out :
              lastRead.out[i].instType = lastRead.arg[1]

\* C27: when the upload that follows an append fails, getBalances still
\* returns its balances without throwing, and local storage holds what
\* the append wrote: the series ends with the appended point and the
\* points before it are the points it held (the oldest one dropped when
\* the series was at its cap)
C27_SyncFailureContained ==
    [][\A answer \in BalanceAnswers :
          GetBalances(answer, "failed") /\ lastRecord'.sync = "failed"
          => /\ ~lastRead'.threw
             /\ lastRead'.out = balancesOf(config, answer)
             /\ stored' # << >>
             /\ stored'[Len(stored')]
                    = historyPoint(balancesOf(config, answer), now)
             /\ SubSeq(stored', 1, Len(stored') - 1)
                    = SliceLast(stored, HistoryCap - 1)
      ]_vars

\* an upload has failed after an append and the appended point is the
\* last of the stored series
C27_Witness ==
    /\ lastRecord.sync = "failed"
    /\ lastRecord.pushed
    /\ stored # << >>
    /\ stored[Len(stored)].ts = toString(lastRecord.at)
    /\ stored[Len(stored)].totalEq = lastRecord.totalEq

\* the positions of the stored points that are not older than the period
RecentIn(series, period, t) ==
    {j \in DOMAIN series :
        ~IsNaN(series[j].ts)
        /\ parseInt(series[j].ts) >= t - periodLength(period)}

\* C28: assetHistory(period) returns exactly the stored points whose
\* timestamp is at least now minus the period (1D 24 hours, 1W 7 days, 1M
\* 30 days, 3M 90 days), in stored order: the k-th point returned is the
\* k-th such point of the series, nothing else is returned, the result is
\* empty when there is none, and the series is left as it was
C28_AssetHistoryWindow ==
    [][\A period \in TimePeriods :
          GetAssetHistory(period)
          => LET recent == RecentIn(stored, period, now)
                 out == lastRead'.out IN
             /\ periodLength(period)
                    = CASE period = "1D" -> 24 * OneHour
                        [] period = "1W" -> 7 * 24 * OneHour
                        [] period = "1M" -> 30 * 24 * OneHour
                        [] period = "3M" -> 90 * 24 * OneHour
             /\ Len(out) = Cardinality(recent)
             /\ \A j \in recent :
                    out[Cardinality({k \in recent : k <= j})] = stored[j]
             /\ stored' = stored
      ]_vars

\* the week's points of a longer series have been returned
C28_Witness ==
    /\ lastRead.op = "getAssetHistory"
    /\ lastRead.arg = <<"1W">>
    /\ lastRead.out # << >>
    /\ Len(lastRead.out) < Len(stored)
    /\ lastRead.out[1] \in Range(stored)

\* C29: getCandles(instId, bar, after = T) with T in seconds sends T * 1000
\* as the cursor of the query and, when the exchange answers newest first
\* with the candles older than the cursor, returns only candles whose time
\* is below T, oldest first; this for every T, T = 0 included
C29_CandlePaging ==
    lastRead.op = "getCandles" /\ lastRead.arg[1] # << >> /\ ~lastRead.failed
    => LET T == lastRead.arg[1][1]
           out == lastRead.out IN
       /\ lastRead.arg[2] = <<T * 1000>>
       /\ \A i \in DOMAIN out : out[i].time < T
       /\ \A i, j \in DOMAIN out : i < j => out[i].time < out[j].time

\* C30: the profit of a long or net position is (exit - entry) * size *
\* contractValue, that of a short position is (entry - exit) * size *
\* contractValue, the negation of the long profit for the same arguments;
\* long 100 -> 110 with size 2 and contract value 1 gives 20, short 100 ->
\* 90 gives 20, short 100 -> 110 gives -20
C30_PnL ==
    pnl.done
    => /\ pnl.side \in {"long", "net"}
          => pnl.out = (pnl.exitPrice - pnl.entryPrice) * pnl.size
                           * pnl.contractVal
       /\ pnl.side = "short"
          => /\ pnl.out = (pnl.entryPrice - pnl.exitPrice) * pnl.size
                              * pnl.contractVal
             /\ pnl.out = 0 - calculatePnL(pnl.entryPrice, pnl.exitPrice,
                                           pnl.size, "long", pnl.contractVal)
       /\ pnl.entryPrice = 100 /\ pnl.size = 2 /\ pnl.contractVal = 1
          => /\ pnl.side = "long" /\ pnl.exitPrice = 110 => pnl.out = 20
             /\ pnl.side = "short" /\ pnl.exitPrice = 90 => pnl.out = 20
             /\ pnl.side = "short" /\ pnl.exitPrice = 110
                => pnl.out = 0 - 20

\* the profit of a short position closed below its entry has been
\* calculated
C30_Witness ==
    /\ pnl.done
    /\ pnl.side = "short"
    /\ pnl.entryPrice = 100 /\ pnl.exitPrice = 90 /\ pnl.size = 2
    /\ pnl.contractVal = 1
    /\ pnl.out = 20

\* the times of the candles of the series are all different
NoCandleTwice ==
    chart.series # << >> =>
        \A i, j \in DOMAIN chart.series[1] :
            i # j => chart.series[1][i].time # chart.series[1][j].time

\* C31: a chart has at most one backfill request in flight at any time: a
\* range change with a negative start index that arrives while a backfill
\* request of the chart is pending issues no second request, and no batch
\* of older candles is in the series twice
C31_SingleBackfill ==
    /\ \A e \in 1..MaxEffects : InFlightOf("backfill", e) <= 1
    /\ lastStep.op = "rangeChange" => ~lastStep.overlapped
    /\ NoCandleTwice

\* the polling loops: the candle refresh and the live-price tick of the
\* chart, the order, position and balance poll of the trade view, the
\* order poll of the dashboard, the market-ticker poll of the sidebar
PollLoops ==
    {"candlePoll", "tickerPoll", "tradePoll", "fetchOrders", "marketTickers"}

\* C32: a tick of a polling loop does not issue its request while the
\* request of an earlier tick of the same loop is still in flight
C32_NoOverlappingTick ==
    lastStep.op = "tick" /\ lastStep.loop \in PollLoops /\ lastStep.issued
        => ~lastStep.overlapped

\* C33: after the effect of a consumer (the chart, the trade view, the
\* sidebar, the dashboard's order poll) has been cleaned up, none of the
\* timers it has set fires, and no continuation of a request it has issued
\* changes the state of the chart or of a view
C33_TeardownIsFinal ==
    lastStep.stale =>
        /\ lastStep.op # "tick"
        /\ lastStep.op = "response" => ~lastStep.applied

\* C34: the read-modify-persist sequences on the stored series are atomic
\* with respect to each other: when a history sync writes its merged
\* result back, every point the recorder has appended since the sync read
\* the series is still in the stored series
C34_NoLostAppend ==
    [][\A outcome \in SyncOutcomes :
          SyncFinish(outcome)
          => \A p \in Range(stored) \ Range(syncing[1]) : p \in Range(stored')
      ]_vars

\* the anchor price of an order: its trigger price if present and
\* positive, else its order price; << >> unless that is a positive number
Anchor(o) ==
    LET text == IF Truthy(o.triggerPx) /\ ~IsNaN(o.triggerPx)
                      /\ parseInt(o.triggerPx) > 0
                THEN o.triggerPx ELSE o.px IN
    IF ~IsNaN(text) /\ parseInt(text) > 0 THEN <<parseInt(text)>> ELSE << >>

\* an order that is to have a handle
Shown(o) ==
    /\ o.instId = ActiveInst
    /\ ~(draggingOrder # << >> /\ draggingOrder[1].ordId = o.ordId)
    /\ Anchor(o) # << >>
    /\ priceToCoordinate(seriesData, Anchor(o)[1]) # << >>

\* the overlay after a recomputation holds the orders that are to have a
\* handle, in the order of the list
OverlayExact == overlayOrders' = SelectSeq(chartOrders, Shown)

\* there is a position on the instrument of the chart
HasPosition == position # << >> /\ position[1].instId = ActiveInst

\* C35 as stated: on every recomputation the overlay holds exactly the
\* orders of the active instrument that are not being dragged, have a
\* positive anchor price and a coordinate, and the position handle is
\* present iff there is a position on the active instrument
C35_OverlayAsStated ==
    [][Frame => OverlayExact /\ (positionY' # << >> <=> HasPosition)]_vars

\* C35: on every recomputation the overlay holds exactly the orders of the
\* active instrument that are not being dragged, have a positive anchor
\* price and a coordinate, and the position handle is present iff there is
\* a position on the active instrument and the chart yields a coordinate
\* for its entry price
C35_Overlay ==
    [][Frame =>
          /\ OverlayExact
          /\ positionY' # << >>
                 <=> /\ HasPosition
                     /\ priceToCoordinate(seriesData,
                                          parseInt(position[1].avgPx)) # << >>
      ]_vars

\* the overlay shows some orders of a list and leaves out an order without
\* anchor price and the order that is being dragged, while the position
\* handle is shown
C35_Witness ==
    /\ overlayOrders # << >>
    /\ overlayOrders = SelectSeq(chartOrders, Shown)
    /\ \E i \in DOMAIN chartOrders : Anchor(chartOrders[i]) = << >>
    /\ draggingOrder # << >>
    /\ \E i \in DOMAIN chartOrders :
           chartOrders[i].ordId = draggingOrder[1].ordId
    /\ positionY # << >>

\* C36: after a successful cancel of order X from the trade view or from
\* the dashboard's chart the local order list is the list before without X
\* and without the other legs of X's algo record: every order that shares
\* neither X's order id nor X's algo id, every other standard order among
\* them, is still in the list
C36_CancelFrame ==
    [][/\ \A i \in 1..Len(trade.openOrders), copy \in Copies,
             resp \in HandlerResponses :
             TradeCancel(i, copy, resp) /\ lastCall'.outcome = "Ok"
             => trade'.openOrders
                    = keepOthers(trade.openOrders, trade.openOrders[i])
       /\ \A i \in 1..Len(dash.expandedOrders), copy \in Copies,
             resp \in HandlerResponses :
             DashCancel(i, copy, resp) /\ lastCall'.outcome = "Ok"
             => dash'.expandedOrders
                    = keepOthers(dash.expandedOrders, dash.expandedOrders[i])
      ]_vars

\* the synthesized ids of the legs in a list
LegIds(list) ==
    {list[i].ordId : i \in {j \in DOMAIN list : list[j].ordType \in {"sl", "tp"}}}

\* the synthesized ids of the legs the views can show
SynthIds ==
    UNION {LegIds(getOpenOrders(Complete, id, book)) :
               id \in Instruments, book \in OrderBooks}

\* the new-value fields a request body carries
NewFields(item) == {f \in AmendFields \cap DOMAIN item : Truthy(item[f])}

\* the request a handler has sent for an order names no leg id, names a
\* leg by the id of its algo record on the algo endpoint, and changes only
\* the trigger of the leg
ByParent(order, call) ==
    LET item == call.body[1].item IN
    /\ item.ordId \notin SynthIds
    /\ item.algoId \notin SynthIds
    /\ order.ordType \in {"sl", "tp"} =>
          /\ item.algoId = order.algoId /\ item.ordId = NoId
          /\ call.endpoint[4] \in {"cancel-algos", "amend-algos"}
    /\ call.op = "amendOrder" /\ order.ordType = "sl" =>
          NewFields(item) = {"newSlTriggerPx"}
    /\ call.op = "amendOrder" /\ order.ordType = "tp" =>
          NewFields(item) = {"newTpTriggerPx"}

\* C37: a synthesized leg id ('<algoId>-sl', '<algoId>-tp') is never the
\* order id or the algo id of a cancel or amend request body: a cancel or
\* a modify of a leg is routed by the id of the parent algo record, and a
\* modify of an sl leg sets only the stop-loss trigger, of a tp leg only
\* the take-profit trigger
C37_LegsByParent ==
    lastStep.op \in {"cancel", "modify"} /\ lastCall.fetches > 0
    => ByParent(lastStep.order[1], lastCall)

\* a modify of a stop-loss leg has been sent to the exchange
C37_Witness ==
    /\ lastStep.op = "modify" /\ lastStep.order[1].ordId = "x1-sl"
    /\ lastCall.op = "amendOrder" /\ lastCall.fetches > 0
    /\ lastCall.body[1].item.algoId = "x1"
    /\ NewFields(lastCall.body[1].item) = {"newSlTriggerPx"}

\* C38: after the instrument of the trade view has changed from A to B, no
\* response to a request issued for A is applied to the ticker, the order
\* list or the positions of the view
C38_NoResponseOfOldInstrument ==
    /\ lastStep.op = "response"
    /\ lastStep.loop \in {"fetchData", "tradePoll"}
    /\ lastStep.instId # trade.instId
    => ~lastStep.applied

\* C39: the order list the trade view shows after a poll is the result of
\* the getOpenOrders call of that poll, whether or not the ticker request
\* of the poll failed: a failing ticker request neither clears nor changes
\* the orders, the positions or the balances shown
C39_TickerFailureKeepsOrders ==
    [][\A r \in BagToSet(pending), got \in TickerFetches,
          book \in OrderBooks, poss \in PositionLists, bals \in BalanceLists :
          FetchDataResponse(r, got, book, poss, bals) /\ trade.isMounted
          => /\ trade'.openOrders = getOpenOrders(config, r.instId, book)
             /\ getTicker(config, r.instId, got).threw
                => /\ trade'.positions = trade.positions
                   /\ trade'.balances = trade.balances
      ]_vars

\* C40: at most one drag is active in every reachable state of the chart's
\* gesture machine: an order drag and a position drag are never active
\* together, and one mouseup or mouseleave hands at most one intent to the
\* owner, a modify or a create and never both
C40_OneDragAtATime ==
    /\ ~(draggingOrder # << >> /\ draggingPosition)
    /\ lastEvent.type \in {"mouseup", "mouseleave"} =>
          /\ lastEvent.intent.kind \in {"none", "modify", "create"}
          /\ lastEvent.intent.kind = "modify" =>
                lastEvent.intent.algoType = "none"
          /\ lastEvent.intent.kind = "create" => lastEvent.intent.order = << >>
====
